---- MODULE Spec2Model ----
(***************************************************************************)
(* Agentic tool-execution and context-governance engine                    *)
(* (backend/app/agentic_tools.py, backend/app/token_manager.py).           *)
(*                                                                         *)
(* Texts (paths, file contents, edit needles) are sequences of characters; *)
(* a character is a one-element string such as "a" or "/".  Three          *)
(* characters stand for code points outside ASCII: "C3" is U+00C3, "A1"    *)
(* is U+00A1, "E1" is U+00E1 (the letter the pair C3 A1 is the             *)
(* double-encoded form of), and "BOM" is U+FEFF.  "NL" is the newline and  *)
(* " " the blank.                                                          *)
(***************************************************************************)
EXTENDS Integers, Sequences, FiniteSets, TLC

VARIABLES
    fs,          \* the file system: canonical path -> node
    auto_mode,   \* ToolExecutor.auto_mode (FALSE is MANUAL mode)
    call,        \* the last call made on the executor: entry point, tool, arguments
    res,         \* the ToolResult that call returned
    raised,      \* TRUE when that call let an exception escape
    pre,         \* the file system as it was before that call
    spawned,     \* number of shell processes that call spawned
    transcript,  \* context compactor: the message list handed in
    compacted,   \* context compactor: the message list returned
    cstage,      \* context compactor: "in" before the call, "out" after it
    pc,          \* run_agentic_chat: "idle", "iter", "call", "tools" or "done"
    iteration,   \* run_agentic_chat: the index of the for loop
    attempt,     \* run_agentic_chat: the index of the retry loop
    slept,       \* the waits of the retry loop of this iteration, in seconds
    tool_calls,  \* message.tool_calls of the last model response that had some
    dispatched,  \* the tool calls of that response given to the executor so far
    pending_permissions,
    all_modified_files,
    all_file_modifications,
    tool_calls_count,
    last_error,  \* how the last model call ended: "none", "rate_limit", "other"
    changed,     \* paths whose file a call of this run changed
    agentic_result, \* the AgenticResult the run returned
    final_response, \* run_agentic_chat: the text of the last response without tool calls
    current_tool_choice, \* run_agentic_chat: the tool_choice of the model call
    max_iterations, \* run_agentic_chat: the max_iterations argument of the run
    advised,     \* the advisory messages the run appended, each with its iteration
    caller_messages, \* run_agentic_chat: the list behind its argument messages
    pending_actions, \* ModeManager.pending_actions: id -> PendingAction
    requests,    \* per request thread: the registry operation it is in the middle of
    replies,     \* per request thread: what its last registry operation returned
    settled,     \* per action id: the approve and reject calls that returned the action
    query,       \* the last call of get_effective_mode or requires_permission
    answer       \* what that call returned

vars == <<fs, auto_mode, call, res, raised, pre, spawned,
          transcript, compacted, cstage,
          pc, iteration, attempt, slept, tool_calls, dispatched,
          pending_permissions, all_modified_files, all_file_modifications,
          tool_calls_count, last_error, changed, agentic_result, final_response,
          current_tool_choice, max_iterations, advised, caller_messages,
          pending_actions, requests, replies, settled, query, answer>>

execVars == <<fs, auto_mode, call, res, raised, pre, spawned>>
compVars == <<transcript, compacted, cstage>>
drvVars  == <<pc, iteration, attempt, slept, tool_calls, dispatched,
              pending_permissions, all_modified_files, all_file_modifications,
              tool_calls_count, last_error, changed, agentic_result, final_response,
              current_tool_choice, max_iterations, advised, caller_messages>>
regVars  == <<pending_actions, requests, replies, settled, query, answer>>

(***************************************************************************)
(* Text primitives (Python str operations the handlers use).               *)
(***************************************************************************)
Min(a, b) == IF a < b THEN a ELSE b
Max(a, b) == IF a > b THEN a ELSE b

\* n copies of character c
Rep(c, n) == [i \in 1..n |-> c]

\* needle occurs in text at position i
OccursAt(text, needle, i) ==
    /\ i >= 1
    /\ i + Len(needle) - 1 <= Len(text)
    /\ \A k \in 1..Len(needle) : text[i + k - 1] = needle[k]

\* Python: needle in text
Contains(text, needle) ==
    \/ Len(needle) = 0
    \/ \E i \in 1..(Len(text) - Len(needle) + 1) :
           text[i] = needle[1] /\ OccursAt(text, needle, i)

\* Python: text.startswith(prefix)
StartsWith(text, prefix) == OccursAt(text, prefix, 1)

\* first position >= from at which needle occurs, 0 when there is none
FindFrom(text, needle, from) ==
    IF from > Len(text) + 1 - Len(needle) THEN 0
    ELSE IF ~\E i \in from..(Len(text) - Len(needle) + 1) : OccursAt(text, needle, i)
    THEN 0
    ELSE CHOOSE i \in from..(Len(text) - Len(needle) + 1) :
             /\ OccursAt(text, needle, i)
             /\ \A j \in from..(i - 1) : ~OccursAt(text, needle, j)

\* Python: text.count(needle), the number of non-overlapping occurrences
RECURSIVE CountFrom(_, _, _)
CountFrom(text, needle, from) ==
    LET i == FindFrom(text, needle, from)
    IN  IF i = 0 THEN 0
        ELSE IF Len(needle) = 0
             THEN Len(text) + 2 - from
             ELSE 1 + CountFrom(text, needle, i + Len(needle))

Count(text, needle) == CountFrom(text, needle, 1)

\* Python: text.replace(old, new, 1)
ReplaceFirst(text, old, new) ==
    LET i == FindFrom(text, old, 1)
    IN  IF i = 0 THEN text
        ELSE SubSeq(text, 1, i - 1) \o new
                 \o SubSeq(text, i + Len(old), Len(text))

\* Python: text.replace(old, new), every non-overlapping occurrence; an
\* empty old matches before every character and at the end
RECURSIVE ReplaceAllFrom(_, _, _, _)
ReplaceAllFrom(text, old, new, from) ==
    IF Len(old) = 0
    THEN IF from > Len(text) THEN new
         ELSE new \o <<text[from]>> \o ReplaceAllFrom(text, old, new, from + 1)
    ELSE LET i == FindFrom(text, old, from)
         IN  IF i = 0 THEN SubSeq(text, from, Len(text))
             ELSE SubSeq(text, from, i - 1) \o new
                      \o ReplaceAllFrom(text, old, new, i + Len(old))

ReplaceAll(text, old, new) == ReplaceAllFrom(text, old, new, 1)

\* Python: text.split(sep) for a one-character separator
SplitOn(text, sep) ==
    LET cuts == {i \in 1..Len(text) : text[i] = sep}
        n    == Cardinality(cuts)
        cut(k) == IF k = 0 THEN 0
                  ELSE IF k = n + 1 THEN Len(text) + 1
                  ELSE CHOOSE i \in cuts : Cardinality({j \in cuts : j < i}) = k - 1
    IN  [k \in 1..(n + 1) |-> SubSeq(text, cut(k - 1) + 1, cut(k) - 1)]

\* Python: sep.join(parts)
RECURSIVE JoinWith(_, _)
JoinWith(parts, sep) ==
    IF Len(parts) = 0 THEN <<>>
    ELSE IF Len(parts) = 1 THEN parts[1]
    ELSE parts[1] \o <<sep>> \o JoinWith(Tail(parts), sep)

\* Python: text.lstrip(BOM)
RECURSIVE LStripBOM(_)
LStripBOM(text) ==
    IF Len(text) > 0 /\ text[1] = "BOM" THEN LStripBOM(Tail(text)) ELSE text

(***************************************************************************)
(* Path resolution (ToolExecutor._resolve_path).                           *)
(***************************************************************************)
\* the project root the executor was built with, already canonical
project_root == <<"/", "p">>

BLOCKED_PATTERNS == <<
    <<".", ".", "/">>,
    <<".", "g", "i", "t", "/">>,
    <<"n", "o", "d", "e", "_", "m", "o", "d", "u", "l", "e", "s", "/">>,
    <<"_", "_", "p", "y", "c", "a", "c", "h", "e", "_", "_", "/">>,
    <<".", "e", "n", "v">>,
    <<".", "v", "e", "n", "v", "/">>,
    <<"v", "e", "n", "v", "/">> >>

\* re.search(pattern, rel_path) for some pattern of the deny-list; every
\* pattern is a literal, so the search is a substring test
MatchesBlocked(rel_path) ==
    \E k \in 1..Len(BLOCKED_PATTERNS) : Contains(rel_path, BLOCKED_PATTERNS[k])

\* the value _resolve_path returns for a rejected path
None == <<>>

\* pathlib: drop "" and "." segments, let ".." remove the segment before it
\* (at the file-system root ".." stays at the root)
RECURSIVE Normalize(_, _)
Normalize(segs, stack) ==
    IF Len(segs) = 0 THEN stack
    ELSE LET s == segs[1]
         IN  IF s = <<>> \/ s = <<".">> THEN Normalize(Tail(segs), stack)
             ELSE IF s = <<".", ".">>
                  THEN Normalize(Tail(segs),
                                 IF Len(stack) = 0 THEN stack
                                 ELSE SubSeq(stack, 1, Len(stack) - 1))
                  ELSE Normalize(Tail(segs), Append(stack, s))

\* str(path) of a list of segments below the file-system root
PathStr(stack) ==
    IF Len(stack) = 0 THEN <<"/">> ELSE <<"/">> \o JoinWith(stack, "/")

\* (project_root / rel_path).resolve(): an absolute rel_path replaces the
\* root; the tree holds no symbolic links
Canonical(rel_path) ==
    LET base == IF StartsWith(rel_path, <<"/">>) THEN <<>> ELSE project_root
    IN  PathStr(Normalize(SplitOn(base \o <<"/">> \o rel_path, "/"), <<>>))

\* the containment test of _resolve_path: a raw string-prefix comparison
WithinRoot(full_path) == StartsWith(full_path, project_root)

_resolve_path(rel_path) ==
    IF rel_path = <<>> THEN project_root
    ELSE IF MatchesBlocked(rel_path) THEN None
    ELSE IF ~WithinRoot(Canonical(rel_path)) THEN None
    ELSE Canonical(rel_path)

(***************************************************************************)
(* Encoding protection (detect_mojibake, fix_mojibake,                     *)
(* validate_encoding_safety).                                              *)
(***************************************************************************)
mojibake_patterns == <<
    <<"C3", "A1">>, <<"C3", "A9">>, <<"C3", "AD">>, <<"C3", "B3">>,
    <<"C3", "B6">>, <<"C3", "BA">>, <<"C3", "BC">>, <<"C5", "91">>,
    <<"C5", "B1">> >>

\* the characters of the second test of detect_mojibake
mojibake_tails == {"A1", "A9", "AD", "B3", "B6", "BA", "BC"}

HasChar(text, c) == \E i \in 1..Len(text) : text[i] = c

\* the characters a mojibake pattern starts with
mojibake_heads == {mojibake_patterns[k][1] : k \in 1..Len(mojibake_patterns)}

\* any of the patterns occurs in text, or it holds a C3 and, anywhere, one
\* of the tail characters; a text without a head character has neither
detect_mojibake(text) ==
    IF Len(text) = 0 THEN FALSE
    ELSE IF \A i \in 1..Len(text) : text[i] \notin mojibake_heads THEN FALSE
    ELSE \/ \E k \in 1..Len(mojibake_patterns) : Contains(text, mojibake_patterns[k])
         \/ /\ HasChar(text, "C3")
            /\ \E c \in mojibake_tails : HasChar(text, c)

\* characters of the model above U+00FF: text.encode('latin-1') fails on them
AboveLatin1 == {"BOM", "U1861"}

\* characters of the model in U+0080..U+00FF that are UTF-8 continuation bytes
ContinuationBytes == {"A1", "A9", "AD", "B3", "B6", "BA", "BC", "91", "B1"}

\* the other characters of the model in U+0080..U+00FF, UTF-8 lead bytes
LeadBytes == {"C3", "C5", "E1"}

\* bytes.decode('utf-8') of the Latin-1 bytes of text: [ok, out].  Of the
\* two-byte sequences only C3 A1 (U+00E1) has a character in the model; E1
\* leads a three-byte sequence, E1 A1 A1 is U+1861.
RECURSIVE Utf8Decode(_)
Utf8Decode(bytes) ==
    IF Len(bytes) = 0 THEN [ok |-> TRUE, out |-> <<>>]
    ELSE LET b == bytes[1]
         IN  IF b \in ContinuationBytes THEN [ok |-> FALSE, out |-> <<>>]
             ELSE IF b = "C3"
                  THEN IF Len(bytes) >= 2 /\ bytes[2] = "A1"
                       THEN LET rest == Utf8Decode(SubSeq(bytes, 3, Len(bytes)))
                            IN  [ok |-> rest.ok, out |-> <<"E1">> \o rest.out]
                       ELSE [ok |-> FALSE, out |-> <<>>]
             ELSE IF b = "E1"
                  THEN IF Len(bytes) >= 3 /\ bytes[2] = "A1" /\ bytes[3] = "A1"
                       THEN LET rest == Utf8Decode(SubSeq(bytes, 4, Len(bytes)))
                            IN  [ok |-> rest.ok, out |-> <<"U1861">> \o rest.out]
                       ELSE [ok |-> FALSE, out |-> <<>>]
             ELSE IF b \in LeadBytes THEN [ok |-> FALSE, out |-> <<>>]
             ELSE LET rest == Utf8Decode(Tail(bytes))
                  IN  [ok |-> rest.ok, out |-> <<b>> \o rest.out]

\* text made of ASCII only decodes to itself
IsAscii(text) ==
    \A i \in 1..Len(text) :
        text[i] \notin (AboveLatin1 \cup ContinuationBytes \cup LeadBytes)

fix_mojibake(text) ==
    IF Len(text) = 0 \/ IsAscii(text) THEN text
    ELSE IF \E i \in 1..Len(text) : text[i] \in AboveLatin1 THEN text
    ELSE IF Utf8Decode(text).ok THEN Utf8Decode(text).out ELSE text

\* validate_encoding_safety(original, modified)["safe"]; the other checks of
\* the function only add warnings
validate_encoding_safety(original, modified) ==
    ~(~detect_mojibake(original) /\ detect_mojibake(modified))

(***************************************************************************)
(* Line diff accounting (difflib.unified_diff as the handlers count it).   *)
(***************************************************************************)
\* SequenceMatcher.find_longest_match on a[alo+1..ahi], b[blo+1..bhi]: the
\* longest common block, the one starting earliest in a, then earliest in b
BlockAt(a, b, i, j, k, ahi, bhi) ==
    /\ i + k - 1 <= ahi
    /\ j + k - 1 <= bhi
    /\ \A d \in 0..(k - 1) : a[i + d] = b[j + d]

find_longest_match(a, b, alo, ahi, blo, bhi) ==
    LET cands == {c \in ((alo + 1)..ahi) \X ((blo + 1)..bhi) \X (1..(ahi - alo)) :
                     BlockAt(a, b, c[1], c[2], c[3], ahi, bhi)}
    IN  IF cands = {} THEN <<alo + 1, blo + 1, 0>>
        ELSE CHOOSE c \in cands :
                 \A d \in cands :
                     \/ c[3] > d[3]
                     \/ c[3] = d[3] /\ c[1] < d[1]
                     \/ c[3] = d[3] /\ c[1] = d[1] /\ c[2] <= d[2]

\* indices of SequenceMatcher's matching blocks in a (side = 1) or b (side = 2)
RECURSIVE MatchedIdx(_, _, _, _, _, _, _)
MatchedIdx(a, b, alo, ahi, blo, bhi, side) ==
    IF alo >= ahi \/ blo >= bhi THEN {}
    ELSE LET m == find_longest_match(a, b, alo, ahi, blo, bhi)
         IN  IF m[3] = 0 THEN {}
             ELSE {m[side] + d : d \in 0..(m[3] - 1)}
                  \cup MatchedIdx(a, b, alo, m[1] - 1, blo, m[2] - 1, side)
                  \cup MatchedIdx(a, b, m[1] + m[3] - 1, ahi, m[2] + m[3] - 1, bhi, side)

\* the handlers count a diff line "+x" unless it starts with "+++", and a
\* line "-x" unless it starts with "---"
CountedLine(line, sign) == ~StartsWith(line, <<sign, sign>>)

\* [added, deleted] as the handlers count them over unified_diff(old, new)
DiffCounts(old_content, new_content) ==
    LET a  == SplitOn(old_content, "NL")
        b  == SplitOn(new_content, "NL")
        ma == MatchedIdx(a, b, 0, Len(a), 0, Len(b), 1)
        mb == MatchedIdx(a, b, 0, Len(a), 0, Len(b), 2)
    IN  [added   |-> Cardinality({j \in 1..Len(b) : j \notin mb /\ CountedLine(b[j], "+")}),
         deleted |-> Cardinality({i \in 1..Len(a) : i \notin ma /\ CountedLine(a[i], "-")})]

(***************************************************************************)
(* The file system the executor works on.                                  *)
(***************************************************************************)
FsRoot == <<"/">>
N_a    == <<"/", "p", "/", "a">>
N_s    == <<"/", "p", "/", "s">>
N_sb   == <<"/", "p", "/", "s", "/", "b">>
N_p2   == <<"/", "p", "2">>
N_p2a  == <<"/", "p", "2", "/", "a">>

\* the canonical paths of the model: the root, what lies in it, and a
\* sibling directory whose name starts with the root's name
Nodes == {FsRoot, project_root, N_a, N_s, N_sb, N_p2, N_p2a}

NoNode      == [kind |-> "none", content |-> <<>>]
DirNode     == [kind |-> "dir", content |-> <<>>]
FileNode(c) == [kind |-> "file", content |-> c]

\* pathlib: path.parent
Parent(node) ==
    LET segs == Normalize(SplitOn(node, "/"), <<>>)
    IN  IF Len(segs) = 0 THEN FsRoot ELSE PathStr(SubSeq(segs, 1, Len(segs) - 1))

\* the proper ancestors of a node
Ancestors(node) == {n \in Nodes : n # node /\ (n = FsRoot \/ StartsWith(node, n \o <<"/">>))}

exists(f, node)  == f[node].kind # "none"
is_file(f, node) == f[node].kind = "file"
is_dir(f, node)  == f[node].kind = "dir"

\* path.mkdir(parents=True, exist_ok=True): [ok, fs]; fails when the path or
\* one of its ancestors is a file
mkdir(f, node) ==
    IF is_file(f, node) \/ \E n \in Ancestors(node) : is_file(f, n)
    THEN [ok |-> FALSE, fs |-> f]
    ELSE [ok |-> TRUE,
          fs |-> [n \in Nodes |-> IF n = node \/ n \in Ancestors(node) THEN DirNode ELSE f[n]]]

\* path.write_text(text): [ok, fs]; fails on a directory or without a parent directory
write_text(f, node, text) ==
    IF is_dir(f, node) \/ ~is_dir(f, Parent(node))
    THEN [ok |-> FALSE, fs |-> f]
    ELSE [ok |-> TRUE, fs |-> [f EXCEPT ![node] = FileNode(text)]]

\* path.read_text(): [ok, text]; fails on anything but a file.  Files hold
\* text that decodes as UTF-8.
read_text(f, node) ==
    IF is_file(f, node) THEN [ok |-> TRUE, text |-> f[node].content]
    ELSE [ok |-> FALSE, text |-> <<>>]

\* path.unlink(): [ok, fs]
unlink(f, node) ==
    IF is_file(f, node) THEN [ok |-> TRUE, fs |-> [f EXCEPT ![node] = NoNode]]
    ELSE [ok |-> FALSE, fs |-> f]

\* hashlib.md5(text).hexdigest(): the digest is represented by the text it
\* digests, tagged; collisions are not modelled
md5(text) == <<"md5">> \o text

(***************************************************************************)
(* Argument values, ToolResult, FileModification.                          *)
(***************************************************************************)
StrV(s) == [t |-> "str", s |-> s, n |-> 0]
IntV(n) == [t |-> "int", s |-> <<>>, n |-> n]
Absent == [t |-> "absent", s |-> <<>>, n |-> 0]

\* an argument map: a key the map lacks is Absent; extra is TRUE when the
\* map holds a key no parameter of the handler has
NoArgs == [path |-> Absent, content |-> Absent, old_text |-> Absent,
           new_text |-> Absent, command |-> Absent, description |-> Absent,
           working_directory |-> Absent, timeout |-> Absent,
           expected_file_hash |-> Absent, other |-> Absent, extra |-> FALSE]

NoDetails == [path |-> <<>>, full_path |-> <<>>, file_hash |-> <<>>,
              content_length |-> 0, command |-> <<>>,
              working_directory |-> <<>>, timeout |-> 0]

FileModification(path, action, lines_added, lines_deleted) ==
    [path |-> path, action |-> action,
     lines_added |-> lines_added, lines_deleted |-> lines_deleted]

\* ToolResult(success, result, error) with the dataclass defaults
ToolResult(success, result, error) ==
    [success |-> success, result |-> result, error |-> error,
     modified_files |-> <<>>, file_modifications |-> <<>>,
     permission_required |-> FALSE, permission_type |-> "",
     permission_details |-> NoDetails]

Failed(error) == ToolResult(FALSE, "", error)

\* a gated result: success=False, permission_required=True
Gated(kind, details) ==
    [ToolResult(FALSE, "", "") EXCEPT !.permission_required = TRUE,
                                      !.permission_type = kind,
                                      !.permission_details = details]

\* a successful mutation of one file
Modified(result, path, mod) ==
    [ToolResult(TRUE, result, "") EXCEPT !.modified_files = <<path>>,
                                         !.file_modifications = <<mod>>]

\* what a handler leaves behind: its ToolResult, the file system, the number
\* of processes it spawned; exc is TRUE when it raised instead of returning
Out(r, f)    == [r |-> r, fs |-> f, sp |-> 0, exc |-> FALSE]
Raise(f)     == [r |-> Failed("raised"), fs |-> f, sp |-> 0, exc |-> TRUE]

\* the argument is a str (anything else is an int of the model, non-zero)
IsStr(v) == v.t = "str"

(***************************************************************************)
(* ToolExecutor: the handlers execute() dispatches to.                     *)
(* Each takes the file system f, the mode auto and the argument map a.     *)
(***************************************************************************)
\* _resolve_path on an argument: a non-str, non-empty value makes re.search
\* raise TypeError; None stands for "rejected"
CanResolve(v) == IsStr(v)

\* the truncation guard of _write_file: new_len < original_len * 0.5 and
\* original_len > TRUNCATE_MIN_ORIGINAL
TRUNCATE_MIN_ORIGINAL == 1000

WouldTruncate(original_len, new_len) ==
    2 * new_len < original_len /\ original_len > TRUNCATE_MIN_ORIGINAL

\* lines_added / lines_deleted of a write: a file whose old content is empty
\* or absent counts as new
WriteMod(path, original, content) ==
    IF Len(original) = 0
    THEN FileModification(path, "create", Len(SplitOn(content, "NL")), 0)
    ELSE FileModification(path, "write",
                          DiffCounts(original, content).added,
                          DiffCounts(original, content).deleted)

\* the part of _write_file inside its try block, for the content to write
WriteBody(f, path, resolved, content) ==
    LET original == IF is_file(f, resolved) THEN f[resolved].content ELSE <<>>
        dirs     == mkdir(f, Parent(resolved))
        written  == write_text(dirs.fs, resolved, content)
    IN  IF is_file(f, resolved) /\ WouldTruncate(Len(original), Len(content))
        THEN Out(Failed("SAFETY BLOCK"), f)
        ELSE IF is_file(f, resolved) /\ ~validate_encoding_safety(original, content)
        THEN Out(Failed("ENCODING PROTECTION"), f)
        ELSE IF ~dirs.ok \/ ~written.ok
        THEN Out(Failed("Error writing file"), f)
        ELSE Out(Modified("wrote", path, WriteMod(path, original, content)), written.fs)

\* _write_file with the MANUAL-mode gate placed after the write
_write_file_GateAfterWrite(f, auto, a) ==
    IF ~CanResolve(a.path) THEN Raise(f)
    ELSE LET resolved == _resolve_path(a.path.s)
             body     == WriteBody(f, a.path.s, resolved, a.content.s)
         IN  IF resolved = None THEN Out(Failed("Invalid or blocked path"), f)
             ELSE IF ~IsStr(a.content) THEN Raise(f)
             ELSE IF ~auto
             THEN Out(Gated("write", [NoDetails EXCEPT !.path = a.path.s,
                                                      !.full_path = resolved]), body.fs)
             ELSE body

_write_file(f, auto, a) ==
    IF ~CanResolve(a.path) THEN Raise(f)
    ELSE LET resolved == _resolve_path(a.path.s)
         IN  IF resolved = None THEN Out(Failed("Invalid or blocked path"), f)
             ELSE IF ~auto
             THEN IF ~IsStr(a.content) THEN Raise(f)
                  ELSE Out(Gated("write",
                                 [NoDetails EXCEPT !.path = a.path.s,
                                                   !.full_path = resolved,
                                                   !.content_length = Len(a.content.s)]), f)
             ELSE IF ~IsStr(a.content) THEN Out(Failed("Error writing file"), f)
             ELSE WriteBody(f, a.path.s, resolved,
                            IF detect_mojibake(a.content.s)
                            THEN fix_mojibake(a.content.s) ELSE a.content.s)

\* re.sub(r'\s+', ' ', text)
IsSpace(c) == c \in {" ", "NL", "TAB"}

NormalizeSpace(text) ==
    IF \A i \in 1..Len(text) : ~IsSpace(text[i]) THEN text
    ELSE LET keep == {i \in 1..Len(text) :
                         ~IsSpace(text[i]) \/ i = 1 \/ ~IsSpace(text[i - 1])}
             at(k) == CHOOSE i \in keep : Cardinality({j \in keep : j < i}) = k - 1
         IN  [k \in 1..Cardinality(keep) |->
                 IF IsSpace(text[at(k)]) THEN " " ELSE text[at(k)]]

\* occurrences = content.count(old); replace the first one when there are
\* several, else content.replace(old, new)
ReplaceInContent(content, old_text, new_text) ==
    IF Count(content, old_text) > 1
    THEN ReplaceFirst(content, old_text, new_text)
    ELSE ReplaceAll(content, old_text, new_text)

\* the diff accounting of _apply_edit, with its special case for a change
\* that adds and removes no whole line
EditMod(path, content, new_content, old_text, new_text) ==
    LET d == DiffCounts(content, new_content)
        modified == Count(old_text, <<"NL">>) + 1
    IN  IF d.added = 0 /\ d.deleted = 0 /\ old_text # new_text
        THEN FileModification(path, "edit", modified, modified)
        ELSE FileModification(path, "edit", d.added, d.deleted)

\* the MANUAL-mode branch of _apply_edit: read, hash, look for old_text, gate
EditGate(f, path, resolved, old_text, new_text) ==
    LET rd      == read_text(f, resolved)
        content == LStripBOM(rd.text)
    IN  IF ~rd.ok \/ ~IsStr(old_text)
        THEN Out(Failed("could not read the file"), f)
        ELSE IF ~Contains(content, old_text.s)
        THEN IF ~IsStr(new_text) THEN Out(Failed("could not read the file"), f)
             ELSE IF Contains(content, new_text.s)
             THEN Out(ToolResult(TRUE, "already applied", ""), f)
             ELSE Out(Failed("text not found"), f)
        ELSE IF ~IsStr(new_text) THEN Raise(f)
        ELSE Out(Gated("edit",
                       [NoDetails EXCEPT !.path = path,
                                         !.full_path = resolved,
                                         !.file_hash = md5(content)]), f)

\* the non-MANUAL branch of _apply_edit, all inside its try block
EditBody(f, path, resolved, old_in, new_in) ==
    LET rd       == read_text(f, resolved)
        content  == LStripBOM(rd.text)
        new_text == IF detect_mojibake(new_in) THEN fix_mojibake(new_in) ELSE new_in
        found    == Contains(content, old_in)
        loose    == Contains(NormalizeSpace(content), NormalizeSpace(old_in))
        fixed    == fix_mojibake(old_in)
        old_text == IF ~found /\ ~loose /\ detect_mojibake(old_in) /\ Contains(content, fixed)
                    THEN fixed ELSE old_in
        new_content == ReplaceInContent(content, old_text, new_text)
        written  == write_text(f, resolved, new_content)
    IN  IF ~rd.ok THEN Out(Failed("Error applying edit"), f)
        ELSE IF ~validate_encoding_safety(old_in, new_text)
        THEN Out(Failed("ENCODING PROTECTION"), f)
        ELSE IF ~found /\ ~loose /\ ~Contains(content, old_text)
        THEN Out(Failed("Could not find the text to replace"), f)
        ELSE IF detect_mojibake(new_content) /\ ~detect_mojibake(content)
        THEN Out(Failed("ENCODING PROTECTION"), f)
        ELSE IF ~written.ok THEN Out(Failed("Error applying edit"), f)
        ELSE Out(Modified("applied edit", path,
                          EditMod(path, content, new_content, old_text, new_text)),
                 written.fs)

\* _apply_edit without its old_text == new_text guard
_apply_edit_NoNoopGuard(f, auto, a) ==
    IF ~CanResolve(a.path) THEN Raise(f)
    ELSE LET resolved == _resolve_path(a.path.s)
         IN  IF resolved = None THEN Out(Failed("Invalid or blocked path"), f)
             ELSE IF ~exists(f, resolved) THEN Out(Failed("File not found"), f)
             ELSE IF ~auto THEN EditGate(f, a.path.s, resolved, a.old_text, a.new_text)
             ELSE IF ~IsStr(a.old_text) \/ ~IsStr(a.new_text)
             THEN Out(Failed("Error applying edit"), f)
             ELSE EditBody(f, a.path.s, resolved, a.old_text.s, a.new_text.s)

_apply_edit(f, auto, a) ==
    IF ~CanResolve(a.path) THEN Raise(f)
    ELSE LET resolved == _resolve_path(a.path.s)
         IN  IF resolved = None THEN Out(Failed("Invalid or blocked path"), f)
             ELSE IF ~exists(f, resolved) THEN Out(Failed("File not found"), f)
             ELSE IF a.old_text = a.new_text THEN Out(Failed("old_text and new_text are the same"), f)
             ELSE IF ~auto THEN EditGate(f, a.path.s, resolved, a.old_text, a.new_text)
             ELSE IF ~IsStr(a.old_text) \/ ~IsStr(a.new_text)
             THEN Out(Failed("Error applying edit"), f)
             ELSE EditBody(f, a.path.s, resolved, a.old_text.s, a.new_text.s)

\* _create_directory without its MANUAL-mode gate
_create_directory_NoGate(f, auto, a) ==
    IF ~CanResolve(a.path) THEN Raise(f)
    ELSE LET resolved == _resolve_path(a.path.s)
             made     == mkdir(f, resolved)
         IN  IF resolved = None THEN Out(Failed("Invalid or blocked path"), f)
             ELSE IF ~made.ok THEN Out(Failed("Error creating directory"), f)
             ELSE Out(ToolResult(TRUE, "created directory", ""), made.fs)

_create_directory(f, auto, a) ==
    IF ~CanResolve(a.path) THEN Raise(f)
    ELSE LET resolved == _resolve_path(a.path.s)
             made     == mkdir(f, resolved)
         IN  IF resolved = None THEN Out(Failed("Invalid or blocked path"), f)
             ELSE IF ~auto
             THEN Out(Gated("create_directory",
                            [NoDetails EXCEPT !.path = a.path.s, !.full_path = resolved]), f)
             ELSE IF ~made.ok THEN Out(Failed("Error creating directory"), f)
             ELSE Out(ToolResult(TRUE, "created directory", ""), made.fs)

\* _delete_file gated in MANUAL mode only, like the write tools
_delete_file_AutoDeletes(f, auto, a) ==
    IF ~CanResolve(a.path) THEN Raise(f)
    ELSE LET resolved == _resolve_path(a.path.s)
         IN  IF resolved = None THEN Out(Failed("Invalid or blocked path"), f)
             ELSE IF ~exists(f, resolved) THEN Out(Failed("File not found"), f)
             ELSE IF ~is_file(f, resolved) THEN Out(Failed("Not a file"), f)
             ELSE IF auto
             THEN Out([ToolResult(TRUE, "deleted", "") EXCEPT !.modified_files = <<a.path.s>>],
                      unlink(f, resolved).fs)
             ELSE Out(Gated("delete",
                            [NoDetails EXCEPT !.path = a.path.s, !.full_path = resolved]), f)

_delete_file(f, auto, a) ==
    IF ~CanResolve(a.path) THEN Raise(f)
    ELSE LET resolved == _resolve_path(a.path.s)
         IN  IF resolved = None THEN Out(Failed("Invalid or blocked path"), f)
             ELSE IF ~exists(f, resolved) THEN Out(Failed("File not found"), f)
             ELSE IF ~is_file(f, resolved) THEN Out(Failed("Not a file"), f)
             ELSE Out(Gated("delete",
                            [NoDetails EXCEPT !.path = a.path.s, !.full_path = resolved]), f)

\* the bounds of the timeout clamp of _execute_terminal, and its default
TIMEOUT_MIN     == 5
TIMEOUT_MAX     == 300
TIMEOUT_DEFAULT == 30

\* _execute_terminal running the command at once when not in MANUAL mode
_execute_terminal_RunsInAuto(f, auto, a) ==
    IF a.timeout # Absent /\ a.timeout.t # "int" THEN Raise(f)
    ELSE IF auto THEN [Out(ToolResult(TRUE, "command executed", ""), f) EXCEPT !.sp = 1]
    ELSE Out(Gated("terminal", [NoDetails EXCEPT !.command = a.command.s,
                                                !.working_directory = project_root]), f)

_execute_terminal(f, auto, a) ==
    LET timeout == IF a.timeout = Absent THEN IntV(TIMEOUT_DEFAULT) ELSE a.timeout
        wd      == a.working_directory
        given   == wd # Absent /\ wd # StrV(<<>>)
        work    == IF given /\ IsStr(wd) THEN _resolve_path(wd.s) ELSE project_root
        work_dir == IF work = None THEN project_root
                    ELSE IF ~is_dir(f, work) THEN project_root ELSE work
    IN  IF timeout.t # "int" THEN Raise(f)
        ELSE IF given /\ ~CanResolve(wd) THEN Raise(f)
        ELSE Out(Gated("terminal",
                       [NoDetails EXCEPT !.command = a.command.s,
                                         !.working_directory = work_dir,
                                         !.timeout = Min(Max(timeout.n, TIMEOUT_MIN), TIMEOUT_MAX)]), f)

\* the tools that only read: their output text is not modelled, only
\* whether they succeed
_read_file(f, auto, a) ==
    IF ~CanResolve(a.path) THEN Raise(f)
    ELSE LET resolved == _resolve_path(a.path.s)
         IN  IF resolved = None THEN Out(Failed("Invalid or blocked path"), f)
             ELSE IF ~exists(f, resolved) THEN Out(Failed("File not found"), f)
             ELSE IF ~is_file(f, resolved) THEN Out(Failed("Not a file"), f)
             ELSE Out(ToolResult(TRUE, "content", ""), f)

_get_file_info(f, auto, a) ==
    IF ~CanResolve(a.path) THEN Raise(f)
    ELSE LET resolved == _resolve_path(a.path.s)
         IN  IF resolved = None THEN Out(Failed("Invalid or blocked path"), f)
             ELSE IF ~exists(f, resolved) THEN Out(Failed("File not found"), f)
             ELSE IF ~is_file(f, resolved) THEN Out(Failed("Error getting file info"), f)
             ELSE Out(ToolResult(TRUE, "info", ""), f)

\* path is optional here: resolve(path or ".")
PathOrDot(v) == IF v = Absent \/ v = StrV(<<>>) THEN StrV(<<".">>) ELSE v

_list_directory(f, auto, a) ==
    IF ~CanResolve(PathOrDot(a.path)) THEN Raise(f)
    ELSE LET resolved == _resolve_path(PathOrDot(a.path).s)
         IN  IF resolved = None THEN Out(Failed("Invalid or blocked path"), f)
             ELSE IF ~exists(f, resolved) THEN Out(Failed("Directory not found"), f)
             ELSE IF ~is_dir(f, resolved) THEN Out(Failed("Not a directory"), f)
             ELSE Out(ToolResult(TRUE, "listing", ""), f)

_search_in_files(f, auto, a) ==
    IF ~CanResolve(PathOrDot(a.path)) THEN Raise(f)
    ELSE LET resolved == _resolve_path(PathOrDot(a.path).s)
         IN  IF resolved = None THEN Out(Failed("Invalid or blocked path"), f)
             ELSE IF ~exists(f, resolved) THEN Out(Failed("Path not found"), f)
             ELSE IF ~IsStr(a.other) THEN Out(Failed("Error searching files"), f)
             ELSE Out(ToolResult(TRUE, "matches", ""), f)

_continue_task(f, auto, a) == Out(ToolResult(TRUE, "continuing", ""), f)

\* the search collaborator answers or fails; a failure is caught in the handler
_semantic_search(f, auto, a, answers) ==
    IF answers THEN Out(ToolResult(TRUE, "chunks", ""), f)
    ELSE Out(Failed("Semantic search error"), f)

(***************************************************************************)
(* ToolExecutor.execute: dispatch by name, bind the argument map, turn any *)
(* exception of the handler into a failed ToolResult.                      *)
(***************************************************************************)
ToolNames == {"read_file", "write_file", "apply_edit", "list_directory",
              "search_in_files", "create_directory", "delete_file",
              "get_file_info", "continue_task", "semantic_search",
              "execute_terminal"}

ArgNames == {"path", "content", "old_text", "new_text", "command", "description",
             "working_directory", "timeout", "expected_file_hash", "other"}

\* the parameters a handler needs; "other" stands for the required
\* parameter of its own that a read-only tool has (pattern, message, query)
Required(tool) ==
    CASE tool = "write_file"       -> {"path", "content"}
      [] tool = "apply_edit"       -> {"path", "old_text", "new_text"}
      [] tool = "execute_terminal" -> {"command", "description"}
      [] tool = "list_directory"   -> {}
      [] tool = "search_in_files"  -> {"other"}
      [] tool = "continue_task"    -> {"other"}
      [] tool = "semantic_search"  -> {"other"}
      [] OTHER                     -> {"path"}

\* the parameters a handler has
Accepted(tool) ==
    CASE tool = "execute_terminal" -> {"command", "description", "working_directory", "timeout"}
      [] tool = "list_directory"   -> {"path"}
      [] tool = "search_in_files"  -> {"other", "path"}
      [] OTHER                     -> Required(tool)

Given(a) == {k \in ArgNames : a[k] # Absent}

\* handler(**arguments) binds: no required parameter missing, no unknown key
Binds(tool, a) ==
    /\ Required(tool) \subseteq Given(a)
    /\ Given(a) \subseteq Accepted(tool)
    /\ ~a.extra

Handler(tool, f, auto, a, answers) ==
    CASE tool = "read_file"        -> _read_file(f, auto, a)
      [] tool = "write_file"       -> _write_file(f, auto, a)
      [] tool = "apply_edit"       -> _apply_edit(f, auto, a)
      [] tool = "list_directory"   -> _list_directory(f, auto, a)
      [] tool = "search_in_files"  -> _search_in_files(f, auto, a)
      [] tool = "create_directory" -> _create_directory(f, auto, a)
      [] tool = "delete_file"      -> _delete_file(f, auto, a)
      [] tool = "get_file_info"    -> _get_file_info(f, auto, a)
      [] tool = "continue_task"    -> _continue_task(f, auto, a)
      [] tool = "semantic_search"  -> _semantic_search(f, auto, a, answers)
      [] tool = "execute_terminal" -> _execute_terminal(f, auto, a)

\* the handler call with what it raises: a TypeError when the map does not bind
Invoke(tool, f, auto, a, answers) ==
    IF ~Binds(tool, a) THEN Raise(f) ELSE Handler(tool, f, auto, a, answers)

\* execute without its try/except
Guarded_NoCatch(o) == o

\* the try/except of execute
Guarded(o) ==
    IF o.exc THEN Out(Failed("Tool execution error"), o.fs) ELSE o

execute(tool, f, auto, a, answers) ==
    IF tool \notin ToolNames THEN Out(Failed("Unknown tool"), f)
    ELSE Guarded(Invoke(tool, f, auto, a, answers))

(***************************************************************************)
(* ToolExecutor: the entry points called after the user approved.  They    *)
(* are called directly, not through execute.                               *)
(***************************************************************************)
write_file_approved(f, a) ==
    IF ~CanResolve(a.path) \/ a.content = Absent \/ a.extra THEN Raise(f)
    ELSE LET resolved == _resolve_path(a.path.s)
             rd       == read_text(f, resolved)
             original == IF rd.ok THEN rd.text ELSE <<>>
             dirs     == mkdir(f, Parent(resolved))
             written  == write_text(dirs.fs, resolved, a.content.s)
             mod      == IF ~rd.ok
                         THEN FileModification(a.path.s, "create",
                                               Len(SplitOn(a.content.s, "NL")), 0)
                         ELSE FileModification(a.path.s, "write",
                                               DiffCounts(original, a.content.s).added,
                                               DiffCounts(original, a.content.s).deleted)
         IN  IF resolved = None THEN Out(Failed("Invalid or blocked path"), f)
             ELSE IF ~dirs.ok THEN Out(Failed("Error writing file"), f)
             ELSE IF ~IsStr(a.content) \/ ~written.ok
             THEN Out(Failed("Error writing file"), dirs.fs)
             ELSE Out(Modified("wrote", a.path.s, mod), written.fs)

\* the staleness check of apply_edit_approved: "pass" lets the edit go on
\* a check that turns every approval away once the hash differs
HashCheck_Strict(content, old_text, new_text, expected_file_hash) ==
    IF expected_file_hash = Absent \/ expected_file_hash = StrV(<<>>) THEN "pass"
    ELSE IF md5(content) = expected_file_hash.s THEN "pass"
    ELSE "changed"

HashCheck(content, old_text, new_text, expected_file_hash) ==
    IF expected_file_hash = Absent \/ expected_file_hash = StrV(<<>>) THEN "pass"
    ELSE IF md5(content) = expected_file_hash.s THEN "pass"
    ELSE IF Contains(content, new_text) /\ ~Contains(content, old_text) THEN "applied"
    ELSE IF Contains(content, old_text) THEN "pass"
    ELSE "changed"

apply_edit_approved(f, a) ==
    IF ~CanResolve(a.path) THEN Raise(f)
    ELSE LET resolved == _resolve_path(a.path.s)
             rd       == read_text(f, resolved)
             content  == LStripBOM(rd.text)
             old_text == a.old_text.s
             new_text == a.new_text.s
             check    == HashCheck(content, old_text, new_text, a.expected_file_hash)
             new_content == ReplaceInContent(content, old_text, new_text)
             written  == write_text(f, resolved, new_content)
             d        == DiffCounts(content, new_content)
         IN  IF resolved = None THEN Out(Failed("File not found"), f)
             ELSE IF ~exists(f, resolved) THEN Out(Failed("File not found"), f)
             ELSE IF a.old_text = a.new_text
             THEN Out(Failed("old_text and new_text are the same"), f)
             ELSE IF ~rd.ok \/ ~IsStr(a.old_text) \/ ~IsStr(a.new_text)
             THEN Out(Failed("Error applying edit"), f)
             ELSE IF check = "applied" THEN Out(ToolResult(TRUE, "already applied", ""), f)
             ELSE IF check = "changed" THEN Out(Failed("file changed"), f)
             ELSE IF ~Contains(content, old_text)
             THEN IF Contains(content, new_text)
                  THEN Out(ToolResult(TRUE, "already applied", ""), f)
                  ELSE Out(Failed("text not found"), f)
             ELSE IF ~written.ok THEN Out(Failed("Error applying edit"), f)
             ELSE Out(Modified("applied edit", a.path.s,
                               FileModification(a.path.s, "edit", d.added, d.deleted)),
                      written.fs)

delete_file_approved(f, a) ==
    IF ~CanResolve(a.path) THEN Raise(f)
    ELSE LET resolved == _resolve_path(a.path.s)
             gone     == unlink(f, resolved)
         IN  IF resolved = None THEN Out(Failed("File not found"), f)
             ELSE IF ~exists(f, resolved) THEN Out(Failed("File not found"), f)
             ELSE IF ~gone.ok THEN Out(Failed("Error deleting file"), f)
             ELSE Out([ToolResult(TRUE, "deleted", "") EXCEPT !.modified_files = <<a.path.s>>],
                      gone.fs)

create_directory_approved(f, a) ==
    IF ~CanResolve(a.path) THEN Raise(f)
    ELSE LET resolved == _resolve_path(a.path.s)
             made     == mkdir(f, resolved)
         IN  IF resolved = None THEN Out(Failed("Invalid or blocked path"), f)
             ELSE IF ~made.ok THEN Out(Failed("Error creating directory"), f)
             ELSE Out(ToolResult(TRUE, "created directory", ""), made.fs)

\* what the shell process does once spawned
ProcessOutcomes == {"exit 0", "exit non-zero", "timeout"}

\* working_directory is used as given, without _resolve_path; subprocess.run
\* raises before spawning when it is no directory.  What the command does
\* to the files is the process's doing and is not modelled.
execute_terminal_approved(f, a, outcome) ==
    IF ~IsStr(a.working_directory) THEN Raise(f)
    ELSE IF a.working_directory.s \notin Nodes \/ ~is_dir(f, a.working_directory.s)
    THEN Out(Failed("Terminal execution error"), f)
    ELSE [Out(IF outcome = "exit 0" THEN ToolResult(TRUE, "command executed", "")
              ELSE IF outcome = "timeout" THEN Failed("Command timed out")
              ELSE Failed("Command failed"), f) EXCEPT !.sp = 1]

(***************************************************************************)
(* The inputs the executor is driven with.                                 *)
(***************************************************************************)
\* size of the large file of the model, above TRUNCATE_MIN_ORIGINAL
BigLen == 2000

T_a    == <<"a">>
T_b    == <<"b">>
T_c    == <<"c">>
T_abab == <<"a", "b", "a", "b">>
T_moji == <<"C3", "A1">>
\* a text behind a byte-order mark
T_bom  == <<"BOM", "a", "b">>
T_big  == Rep("x", BigLen)
\* a text of exactly TRUNCATE_MIN_ORIGINAL characters
T_half == Rep("x", TRUNCATE_MIN_ORIGINAL)

P_empty  == <<>>
P_a      == <<"a">>
P_sb     == <<"s", "/", "b">>
P_up     == <<".", ".", "/", "a">>
P_trail  == <<"s", "/", ".", ".">>
P_dotdot == <<".", ".">>
P_sib    == <<"/", "p", "2", "/", "a">>
P_git    == <<".", "g", "i", "t", "/", "c">>
P_env    == <<".", "e", "n", "v">>

Paths == {P_empty, P_a, P_sb, P_up, P_trail, P_dotdot, P_sib, P_git, P_env}

\* a value of the wrong type for a str parameter: a non-zero int
IllTyped == IntV(7)

PathArgs == {StrV(q) : q \in Paths} \cup {Absent, IllTyped}

WithPath(v) == [NoArgs EXCEPT !.path = v]

\* argument maps for write_file / write_file_approved: every path with a
\* short content, the file a with every content, a map with a key too many
WriteArgs ==
    {[WithPath(v) EXCEPT !.content = StrV(T_abab)] : v \in PathArgs}
    \cup {[WithPath(StrV(P_a)) EXCEPT !.content = c] :
              c \in {StrV(T_big), StrV(T_half), StrV(T_moji), StrV(T_bom), IllTyped,
                     Absent}}
    \cup {[WithPath(StrV(P_a)) EXCEPT !.content = StrV(T_abab), !.extra = TRUE]}

EditOf(v, old, new) == [WithPath(v) EXCEPT !.old_text = old, !.new_text = new]

\* argument maps for apply_edit: every path with a no-op edit, the file a
\* with the edit a -> b and with edits that miss, that bring in mojibake,
\* that are ill-typed or incomplete
EditArgs ==
    {EditOf(v, StrV(T_a), StrV(T_a)) : v \in PathArgs}
    \cup {EditOf(StrV(P_a), o, n) :
              <<o, n>> \in {<<StrV(T_a), StrV(T_b)>>,
                           <<StrV(T_c), StrV(T_b)>>, <<StrV(T_abab), StrV(T_moji)>>,
                           <<IllTyped, IllTyped>>, <<StrV(T_a), IllTyped>>,
                           <<StrV(T_a), Absent>>, <<StrV(T_big), StrV(T_big)>>}}
    \cup {EditOf(StrV(P_sib), StrV(T_abab), StrV(T_b))}

\* the hashes an approval can carry: none, the hash of a content
HashArgs == {Absent, StrV(md5(T_abab)), StrV(md5(T_big))}

EditApprovedArgs ==
    {e \in EditArgs : e.new_text # Absent}
    \cup {[EditOf(StrV(P_a), StrV(T_a), StrV(T_b)) EXCEPT !.expected_file_hash = h] :
              h \in HashArgs}
    \cup {[EditOf(StrV(P_a), StrV(T_c), StrV(T_b)) EXCEPT !.expected_file_hash = h] :
              h \in HashArgs}

TerminalOf(c, w, t) ==
    [NoArgs EXCEPT !.command = c, !.description = StrV(T_a),
                   !.working_directory = w, !.timeout = t]

\* argument maps for execute_terminal: well-formed ones, then one fault each
TerminalArgs ==
    {TerminalOf(StrV(T_a), w, Absent) :
        w \in {Absent, StrV(<<"s">>), StrV(P_up), StrV(P_a), IllTyped}}
    \cup {TerminalOf(StrV(T_a), Absent, t) : t \in {IntV(3), IntV(500), StrV(T_a)}}
    \cup {TerminalOf(Absent, Absent, Absent), TerminalOf(IllTyped, Absent, Absent),
          [NoArgs EXCEPT !.command = StrV(T_a)],
          [TerminalOf(StrV(T_a), Absent, Absent) EXCEPT !.extra = TRUE]}

TerminalApprovedArgs ==
    {[NoArgs EXCEPT !.command = StrV(T_a), !.working_directory = w] :
        w \in {StrV(project_root), StrV(N_s), StrV(N_p2), StrV(N_a), IllTyped}}

\* argument maps for the tools with a required parameter of their own
OtherArgs ==
    {[WithPath(v) EXCEPT !.other = o] :
        <<v, o>> \in {<<Absent, StrV(T_a)>>, <<Absent, Absent>>,
                     <<StrV(P_a), StrV(T_a)>>, <<StrV(P_git), StrV(T_a)>>,
                     <<Absent, IllTyped>>}}

\* the argument maps a tool is called with through execute
ArgMaps(tool) ==
    CASE tool = "write_file"       -> WriteArgs
      [] tool = "apply_edit"       -> EditArgs
      [] tool = "execute_terminal" -> TerminalArgs
      [] tool \in {"search_in_files", "continue_task", "semantic_search"} -> OtherArgs
      [] tool \notin ToolNames     -> {WithPath(StrV(P_a))}
      [] OTHER                     -> {WithPath(v) : v \in PathArgs}

(***************************************************************************)
(* The executor as a state machine: one action per entry point.            *)
(***************************************************************************)
InitFs ==
    [n \in Nodes |->
        IF n \in {FsRoot, project_root, N_p2} THEN DirNode
        ELSE IF n \in {N_a, N_p2a} THEN FileNode(T_abab)
        ELSE NoNode]

InitComp ==
    /\ transcript = <<>>
    /\ compacted = <<>>
    /\ cstage = "in"

\* AgenticResult with the dataclass defaults
AgenticResult(success, response, error) ==
    [success |-> success, response |-> response, error |-> error,
     modified_files |-> <<>>, tool_calls_count |-> 0, pending_permissions |-> <<>>]

\* the largest max_iterations a run is given
MaxIterations == 3

\* run_agentic_chat before its loop
InitDriver ==
    /\ pc = "idle"
    /\ iteration = 0
    /\ attempt = 0
    /\ slept = <<>>
    /\ tool_calls = <<>>
    /\ dispatched = <<>>
    /\ pending_permissions = <<>>
    /\ all_modified_files = <<>>
    /\ all_file_modifications = <<>>
    /\ tool_calls_count = 0
    /\ last_error = "none"
    /\ changed = {}
    /\ agentic_result = AgenticResult(FALSE, "", "")
    /\ final_response = <<>>
    /\ caller_messages = <<>>
    /\ current_tool_choice = ""
    /\ max_iterations = MaxIterations
    /\ advised = <<>>

\* the action ids uuid4 can give: MaxActions of them
MaxActions == 2
ActionIds == 1..MaxActions

\* the threads that serve the permission endpoints
Threads == {"t1", "t2"}

NoRequest == [op |-> "none", id |-> 0]
NoReply == [op |-> "none", id |-> 0, out |-> "none", listed |-> {}]
NoQuery == [fn |-> "none", auto_mode |-> FALSE, agentic_mode |-> FALSE,
            action_type |-> "", mode |-> "",
            details |-> [present |-> FALSE, command |-> <<>>]]

\* mode_manager = ModeManager(): no pending action, no request under way
InitRegistry ==
    /\ pending_actions = <<>>
    /\ requests = [t \in Threads |-> NoRequest]
    /\ replies = [t \in Threads |-> NoReply]
    /\ settled = <<>>
    /\ query = NoQuery
    /\ answer = [mode |-> "", required |-> FALSE]

Init ==
    /\ InitDriver
    /\ InitRegistry
    /\ fs = InitFs
    /\ auto_mode \in BOOLEAN
    /\ call = [entry |-> "none", tool |-> "", args |-> NoArgs]
    /\ res = Failed("")
    /\ raised = FALSE
    /\ pre = InitFs
    /\ spawned = 0
    /\ InitComp

Idle == call.entry = "none"

\* the effect of one call that left o behind.  The executor keeps nothing
\* from one call to the next: a call starts once the caller has taken the
\* result of the one before.
Called(entry, tool, a, o) ==
    /\ Idle
    /\ fs' = o.fs
    /\ call' = [entry |-> entry, tool |-> tool, args |-> a]
    /\ res' = o.r
    /\ raised' = o.exc
    /\ pre' = fs
    /\ spawned' = o.sp
    /\ UNCHANGED <<auto_mode, compVars, drvVars, regVars>>

\* the caller takes the result
Return ==
    /\ ~Idle
    /\ call' = [entry |-> "none", tool |-> "", args |-> NoArgs]
    /\ res' = Failed("")
    /\ raised' = FALSE
    /\ pre' = fs
    /\ spawned' = 0
    /\ UNCHANGED <<fs, auto_mode, compVars, drvVars, regVars>>

Execute ==
    \E tool \in ToolNames \cup {"no_such_tool"} :
        \E a \in ArgMaps(tool) :
            \E answers \in IF tool = "semantic_search" THEN BOOLEAN ELSE {TRUE} :
                Called("execute", tool, a, execute(tool, fs, auto_mode, a, answers))

WriteFileApproved ==
    \E a \in WriteArgs :
        Called("write_file_approved", "write_file", a, write_file_approved(fs, a))

ApplyEditApproved ==
    \E a \in EditApprovedArgs :
        Called("apply_edit_approved", "apply_edit", a, apply_edit_approved(fs, a))

DeleteFileApproved ==
    \E v \in PathArgs :
        Called("delete_file_approved", "delete_file", WithPath(v),
               delete_file_approved(fs, WithPath(v)))

CreateDirectoryApproved ==
    \E v \in PathArgs :
        Called("create_directory_approved", "create_directory", WithPath(v),
               create_directory_approved(fs, WithPath(v)))

ExecuteTerminalApproved ==
    \E a \in TerminalApprovedArgs :
        \E outcome \in ProcessOutcomes :
            Called("execute_terminal_approved", "execute_terminal", a,
                   execute_terminal_approved(fs, a, outcome))

Next ==
    \/ Execute
    \/ WriteFileApproved
    \/ ApplyEditApproved
    \/ DeleteFileApproved
    \/ CreateDirectoryApproved
    \/ ExecuteTerminalApproved
    \/ Return

Spec == Init /\ [][Next]_vars

(***************************************************************************)
(* The context budget: _truncate_tool_results and _enforce_context_budget. *)
(* A content is known by its measures: lines of text of per tokens each,   *)
(* cpt characters to a token, and marks elision markers put in by a        *)
(* truncation.  The token manager is present.                              *)
(***************************************************************************)
MAX_CONTEXT_BUDGET     == 25000
MAX_TOOL_RESULT_TOKENS == 2000
MAX_SYSTEM_MSG_TOKENS  == 8000
RESERVE_FOR_OUTPUT     == 8000

\* tokens the tokenizer makes of an elision marker, and of the summary note
MARKER_TOKENS  == 12
SUMMARY_TOKENS == 45

Content(lines, per, cpt) == [lines |-> lines, per |-> per, cpt |-> cpt, marks |-> 0]

Message(role, content, calls, id) ==
    [role |-> role, content |-> content, calls |-> calls, id |-> id]

\* TokenManager.count_tokens
count_tokens(c) == c.lines * c.per + c.marks * MARKER_TOKENS

\* len(content.split('\n')): a marker put in the middle takes three lines
LineCount(c) == IF c.lines = 0 THEN 1 ELSE c.lines + 3 * c.marks

\* '\n'.join(lines[:k]) + marker + '\n'.join(lines[-k:])
KeepLines(c, k) == [c EXCEPT !.lines = 2 * k, !.marks = 1]

\* content[:max_chars] + marker; a token cut in two still counts as one
CutChars(c, max_chars) ==
    [lines |-> Min(count_tokens(c), (max_chars + c.cpt - 1) \div c.cpt), per |-> 1,
     cpt |-> c.cpt, marks |-> 1]

\* sum(count_tokens(m.content) for m in msgs)
RECURSIVE SumTokens(_)
SumTokens(msgs) ==
    IF msgs = <<>> THEN 0
    ELSE count_tokens(Head(msgs).content) + SumTokens(Tail(msgs))

\* TokenManager.count_messages_tokens: 4 a message, 1 for its role, 2 to
\* prime the reply; no message of the transcript has a name
RECURSIVE count_messages_tokens(_)
count_messages_tokens(msgs) ==
    IF msgs = <<>> THEN 2
    ELSE 4 + count_tokens(Head(msgs).content) + 1 + count_messages_tokens(Tail(msgs))

_truncate_tool_results(messages) ==
    [i \in DOMAIN messages |->
        IF /\ messages[i].role = "tool"
           /\ count_tokens(messages[i].content) > MAX_TOOL_RESULT_TOKENS
           /\ LineCount(messages[i].content) > 80
        THEN [messages[i] EXCEPT !.content = KeepLines(messages[i].content, 40)]
        ELSE messages[i]]

\* step 1 of _enforce_context_budget: system messages while they fit, the
\* first that does not is cut to what is left, then no more
RECURSIVE AdmitSystem(_, _, _, _)
AdmitSystem(system_msgs, system_budget, system_tokens, out) ==
    IF system_msgs = <<>> THEN [out |-> out, used |-> system_tokens]
    ELSE LET msg        == Head(system_msgs)
             msg_tokens == count_tokens(msg.content)
             available  == system_budget - system_tokens
         IN  IF system_tokens + msg_tokens <= system_budget
             THEN AdmitSystem(Tail(system_msgs), system_budget,
                              system_tokens + msg_tokens, Append(out, msg))
             ELSE IF available > 500
             THEN [out  |-> Append(out, [msg EXCEPT !.content =
                                            CutChars(msg.content, available * 3)]),
                   used |-> system_tokens + available]
             ELSE [out |-> out, used |-> system_tokens]

\* a group that ends after its first tool message
GroupEnd_One(other_msgs, j, tool_call_ids) ==
    IF /\ j <= Len(other_msgs)
       /\ other_msgs[j].role = "tool"
       /\ other_msgs[j].id \in tool_call_ids
    THEN j + 1
    ELSE j

\* the end of the group that starts before j: the tool messages that answer ids
RECURSIVE GroupEnd(_, _, _)
GroupEnd(other_msgs, j, tool_call_ids) ==
    IF /\ j <= Len(other_msgs)
       /\ other_msgs[j].role = "tool"
       /\ other_msgs[j].id \in tool_call_ids
    THEN GroupEnd(other_msgs, j + 1, tool_call_ids)
    ELSE j

\* step 3: an assistant message with tool calls and the results after it
RECURSIVE ToolPairs(_, _)
ToolPairs(other_msgs, i) ==
    IF i > Len(other_msgs) THEN <<>>
    ELSE IF other_msgs[i].role = "assistant" /\ other_msgs[i].calls # {}
    THEN LET j == GroupEnd(other_msgs, i + 1, other_msgs[i].calls)
         IN  <<SubSeq(other_msgs, i, j - 1)>> \o ToolPairs(other_msgs, j)
    ELSE ToolPairs(other_msgs, i + 1)

\* a pair above twice the result cap has its long tool results cut
CutPair(pair) ==
    IF SumTokens(pair) > MAX_TOOL_RESULT_TOKENS * 2
    THEN [k \in DOMAIN pair |->
             IF pair[k].role = "tool" /\ LineCount(pair[k].content) > 60
             THEN [pair[k] EXCEPT !.content = KeepLines(pair[k].content, 30)]
             ELSE pair[k]]
    ELSE pair

\* a pair goes in when the pair itself still fits
RECURSIVE AdmitPairs_BySize(_, _, _, _)
AdmitPairs_BySize(kept_pairs, tokens_used, target_budget, out) ==
    IF kept_pairs = <<>> THEN out
    ELSE IF tokens_used + SumTokens(CutPair(Head(kept_pairs))) <= target_budget
    THEN AdmitPairs_BySize(Tail(kept_pairs),
                           tokens_used + SumTokens(CutPair(Head(kept_pairs))),
                           target_budget, out \o CutPair(Head(kept_pairs)))
    ELSE AdmitPairs_BySize(Tail(kept_pairs), tokens_used, target_budget, out)

\* a pair goes in when twice the result cap still fits, whatever its size
RECURSIVE AdmitPairs(_, _, _, _)
AdmitPairs(kept_pairs, tokens_used, target_budget, out) ==
    IF kept_pairs = <<>> THEN out
    ELSE IF tokens_used + MAX_TOOL_RESULT_TOKENS * 2 <= target_budget
    THEN AdmitPairs(Tail(kept_pairs),
                    tokens_used + SumTokens(CutPair(Head(kept_pairs))),
                    target_budget, out \o CutPair(Head(kept_pairs)))
    ELSE AdmitPairs(Tail(kept_pairs), tokens_used, target_budget, out)

IsSystem(m) == m.role = "system"
IsOther(m)  == m.role # "system"
IsUser(m)   == m.role = "user"

summary_msg == Message("system", Content(1, SUMMARY_TOKENS, 4), {}, 0)

\* step 2 keeping every user message
LastUserOf_All(other_msgs) == SelectSeq(other_msgs, IsUser)

\* step 2 keeping the first user message instead of the last
LastUserOf_First(other_msgs) ==
    LET user_msgs == SelectSeq(other_msgs, IsUser)
    IN  IF user_msgs = <<>> THEN <<>> ELSE <<user_msgs[1]>>

\* step 2: the last user message, kept whatever it costs
LastUserOf(other_msgs) ==
    LET user_msgs == SelectSeq(other_msgs, IsUser)
    IN  IF user_msgs = <<>> THEN <<>> ELSE <<user_msgs[Len(user_msgs)]>>

\* the transcript rebuilt from its parts, with the summary note when more
\* than 5 messages were dropped
Rebuild(messages, budget) ==
    LET target_budget == budget - RESERVE_FOR_OUTPUT
        other_msgs    == SelectSeq(messages, IsOther)
        system_budget == Min(MAX_SYSTEM_MSG_TOKENS, target_budget \div 3)
        sys           == AdmitSystem(SelectSeq(messages, IsSystem), system_budget, 0, <<>>)
        last_user     == LastUserOf(other_msgs)
        tool_pairs    == ToolPairs(other_msgs, 1)
        kept_pairs    == IF Len(tool_pairs) > 3
                         THEN SubSeq(tool_pairs, Len(tool_pairs) - 2, Len(tool_pairs))
                         ELSE tool_pairs
        result        == AdmitPairs(kept_pairs, sys.used + SumTokens(last_user),
                                    target_budget, sys.out \o last_user)
        n_system      == Len(SelectSeq(result, IsSystem))
    IN  IF Len(messages) - Len(result) > 5
        THEN SubSeq(result, 1, n_system) \o <<summary_msg>>
                 \o SubSeq(result, n_system + 1, Len(result))
        ELSE result

\* _enforce_context_budget without its early return
_enforce_context_budget_AlwaysRebuild(messages, budget) == Rebuild(messages, budget)

_enforce_context_budget(messages, budget) ==
    IF count_messages_tokens(messages) <= budget - RESERVE_FOR_OUTPUT THEN messages
    ELSE Rebuild(messages, budget)

\* the tool results that m["content"] = ... of the rebuild writes anew: the
\* long results of the kept pairs above twice the result cap
RECURSIVE CutInPlace(_)
CutInPlace(kept_pairs) ==
    IF kept_pairs = <<>> THEN {}
    ELSE (IF SumTokens(Head(kept_pairs)) > MAX_TOOL_RESULT_TOKENS * 2
          THEN {Head(kept_pairs)[k] : k \in
                   {k \in DOMAIN Head(kept_pairs) :
                       /\ Head(kept_pairs)[k].role = "tool"
                       /\ LineCount(Head(kept_pairs)[k].content) > 60}}
          ELSE {})
         \cup CutInPlace(Tail(kept_pairs))

\* the messages of its argument that _enforce_context_budget writes to
WrittenTo(msgs, budget) ==
    IF count_messages_tokens(msgs) <= budget - RESERVE_FOR_OUTPUT THEN {}
    ELSE LET tool_pairs == ToolPairs(SelectSeq(msgs, IsOther), 1)
         IN  CutInPlace(IF Len(tool_pairs) > 3
                        THEN SubSeq(tool_pairs, Len(tool_pairs) - 2, Len(tool_pairs))
                        ELSE tool_pairs)

\* the caller's list after the head of an iteration.  working_messages =
\* list(messages) copies the list and not the messages: a message of the
\* caller that is still in the working list, which _truncate_tool_results
\* passed on as it was, is the same object in both lists, and what the
\* rebuild writes to it shows in the caller's list.  A message of the caller
\* is known in the working list by its value.
WrittenThrough(caller_msgs, working, budget) ==
    LET truncated == _truncate_tool_results(working)
        passed_on == {working[p] : p \in {p \in DOMAIN working : truncated[p] = working[p]}}
        written   == WrittenTo(truncated, budget) \cap passed_on
    IN  [k \in DOMAIN caller_msgs |->
            IF caller_msgs[k] \in written
            THEN [caller_msgs[k] EXCEPT !.content = KeepLines(caller_msgs[k].content, 30)]
            ELSE caller_msgs[k]]

(***************************************************************************)
(* The transcript of a conversation: the caller's messages, then, each     *)
(* iteration, the budget enforced and the model's tool calls with their    *)
(* results appended.                                                       *)
(***************************************************************************)
\* longest transcript the conversation is followed to
MaxMsgs == 8

SystemContents == {Content(10, 10, 4), Content(60, 100, 4), Content(60, 100, 2)}
UserContents   == {Content(1, 50, 4), Content(100, 140, 4)}
\* tool results: short, a few long lines, many lines, many short lines
ToolContents   == {Content(10, 10, 4), Content(50, 400, 4), Content(200, 100, 4),
                   Content(100, 50, 4)}

\* messages = system prompts first
AddSystem ==
    /\ cstage = "in"
    /\ Len(transcript) < 2
    /\ \A i \in DOMAIN transcript : transcript[i].role = "system"
    /\ \E c \in SystemContents :
           transcript' = Append(transcript, Message("system", c, {}, 0))
    /\ UNCHANGED <<compacted, cstage, execVars, drvVars, regVars>>

\* the user's message, or a message the driver puts in after tool results
AddUser ==
    /\ cstage = "in"
    /\ Len(transcript) < MaxMsgs
    /\ \/ \A i \in DOMAIN transcript : transcript[i].role = "system"
       \/ transcript # <<>> /\ transcript[Len(transcript)].role = "tool"
    /\ \E c \in UserContents :
           transcript' = Append(transcript, Message("user", c, {}, 0))
    /\ UNCHANGED <<compacted, cstage, execVars, drvVars, regVars>>

\* the model answers with a tool call; its content is empty
AddAssistant ==
    /\ cstage = "in"
    /\ Len(transcript) < MaxMsgs
    /\ transcript # <<>>
    /\ transcript[Len(transcript)].role \in {"user", "tool"}
    /\ transcript' = Append(transcript, Message("assistant", Content(0, 0, 4), {1}, 0))
    /\ UNCHANGED <<compacted, cstage, execVars, drvVars, regVars>>

\* the result of the tool call
AddTool ==
    /\ cstage = "in"
    /\ Len(transcript) < MaxMsgs
    /\ transcript # <<>>
    /\ transcript[Len(transcript)].role = "assistant"
    /\ \E c \in ToolContents :
           transcript' = Append(transcript, Message("tool", c, {}, 1))
    /\ UNCHANGED <<compacted, cstage, execVars, drvVars, regVars>>

\* the start of an iteration of run_agentic_chat
Compact ==
    /\ cstage = "in"
    /\ transcript # <<>>
    /\ transcript[Len(transcript)].role \in {"user", "tool"}
    /\ compacted' = _enforce_context_budget(_truncate_tool_results(transcript),
                                            MAX_CONTEXT_BUDGET)
    /\ cstage' = "out"
    /\ UNCHANGED <<transcript, execVars, drvVars, regVars>>

\* the iteration goes on with what the budget left
Continue ==
    /\ cstage = "out"
    /\ transcript' = compacted
    /\ compacted' = <<>>
    /\ cstage' = "in"
    /\ UNCHANGED <<execVars, drvVars, regVars>>

NextCompact ==
    \/ AddSystem
    \/ AddUser
    \/ AddAssistant
    \/ AddTool
    \/ Compact
    \/ Continue

\* the executor stands idle
InitCompact == Init /\ auto_mode = TRUE

SpecCompact == InitCompact /\ [][NextCompact]_vars

(***************************************************************************)
(* A conversation of whole rounds: the request, then rounds of the tool    *)
(* loop, each an assistant message with its tool calls and one result for  *)
(* each call, with the budget enforced between rounds.  The calls of round *)
(* r have the ids 10 * r + 1, 10 * r + 2, ...; iteration counts the rounds. *)
(***************************************************************************)
\* the rounds a conversation is followed to
MaxRounds == 5

\* the results of a round: one short, one of a few long lines, one of many
\* lines, two of many lines, three of 70 lines
RoundResults ==
    {<<Content(10, 10, 4)>>,
     <<Content(50, 400, 4)>>,
     <<Content(200, 100, 4)>>,
     <<Content(200, 100, 4), Content(100, 50, 4)>>,
     <<Content(70, 22, 4), Content(70, 22, 4), Content(70, 22, 4)>>}

\* the messages of round r with the results given
RoundMessages(r, results) ==
    <<Message("assistant", Content(0, 0, 4), {10 * r + k : k \in DOMAIN results}, 0)>>
        \o [k \in DOMAIN results |-> Message("tool", results[k], {}, 10 * r + k)]

\* messages: the system prompt and the user's request
AppendRequest ==
    /\ cstage = "in"
    /\ transcript = <<>>
    /\ \E c \in UserContents :
           transcript' = <<Message("system", Content(10, 10, 4), {}, 0),
                           Message("user", c, {}, 0)>>
    /\ UNCHANGED <<compacted, cstage, execVars, drvVars, regVars>>

\* one pass of the tool loop: the assistant message, then a result a call
AppendRound ==
    /\ cstage = "in"
    /\ transcript # <<>>
    /\ iteration < MaxRounds
    /\ \E results \in RoundResults :
           transcript' = transcript \o RoundMessages(iteration + 1, results)
    /\ iteration' = iteration + 1
    /\ UNCHANGED <<compacted, cstage, execVars, regVars, pc, attempt, slept, tool_calls,
                   dispatched, pending_permissions, all_modified_files,
                   all_file_modifications, tool_calls_count, last_error, changed,
                   agentic_result, final_response, current_tool_choice, max_iterations,
                   advised, caller_messages>>

NextRounds ==
    \/ AppendRequest
    \/ AppendRound
    \/ Compact
    \/ Continue

SpecRounds == InitCompact /\ [][NextRounds]_vars

(***************************************************************************)
(* run_agentic_chat: the loop that calls the model, gives its tool calls   *)
(* to the executor and builds the AgenticResult.  The model is the         *)
(* environment: it answers with tool calls or with text, or the call       *)
(* fails.  The token manager is present.                                   *)
(***************************************************************************)

MAX_RETRIES        == 3
RETRY_DELAY        == 2
LAZY_CALLS_CEILING == 5

\* a tool call of a response; arguments is what json.loads gave, NoArgs
\* when the text was no JSON
ToolCall(id, name, arguments) == [id |-> id, name |-> name, arguments |-> arguments]

AssistantMessage(calls) ==
    Message("assistant", Content(0, 0, 4), {calls[k].id : k \in DOMAIN calls}, 0)

\* a tool message that names no call
ToolMessage_NoId(id) == Message("tool", Content(1, 20, 4), {}, 0)

\* the message that answers a tool call; its text is short
ToolMessage(id) == Message("tool", Content(1, 20, 4), {}, id)

\* advisory messages that come one iteration late
Advisories_Late(i) ==
    (IF i = max_iterations - 2 THEN <<Message("user", Content(1, 30, 4), {}, 0)>> ELSE <<>>)
    \o (IF i = max_iterations THEN <<Message("user", Content(1, 25, 4), {}, 0)>> ELSE <<>>)

\* the messages put in near the iteration limit
Advisories(i) ==
    (IF i = max_iterations - 3 THEN <<Message("user", Content(1, 30, 4), {}, 0)>> ELSE <<>>)
    \o (IF i = max_iterations - 1 THEN <<Message("user", Content(1, 25, 4), {}, 0)>> ELSE <<>>)

\* the number of tool calls above which the model is told to answer in text
TOOL_CALLS_CEILING == 25

\* current_tool_choice: required, none or auto
ToolChoice(i, count) ==
    IF i < 2 THEN "required"
    ELSE IF i >= max_iterations - 2 \/ count > TOOL_CALLS_CEILING THEN "none"
    ELSE "auto"

\* {**arguments} with the file_hash of the permission details when they
\* have one; file_hash = <<>> stands for no such key
ExtendedArguments(arguments, details) ==
    [base |-> arguments, file_hash |-> details.file_hash]

\* existing.get("arguments") == arguments, as dicts
ArgumentsEqual(stored, arguments) ==
    stored.base = arguments /\ stored.file_hash = <<>>

IsDuplicate(pending, tool_name, r, arguments) ==
    \E k \in DOMAIN pending :
        /\ pending[k].tool_name = tool_name
        /\ pending[k].permission_type = r.permission_type
        /\ ArgumentsEqual(pending[k].arguments, arguments)

\* a pending entry that does not name its tool call
PendingEntry_NoCallId(c, r) ==
    [tool_call_id    |-> 0,
     tool_name       |-> c.name,
     permission_type |-> r.permission_type,
     details         |-> r.permission_details,
     arguments       |-> ExtendedArguments(c.arguments, r.permission_details)]

\* pending_permissions.append({...})
PendingEntry(c, r) ==
    [tool_call_id    |-> c.id,
     tool_name       |-> c.name,
     permission_type |-> r.permission_type,
     details         |-> r.permission_details,
     arguments       |-> ExtendedArguments(c.arguments, r.permission_details)]

\* all_modified_files with the files of a result not yet in it
RECURSIVE TrackFiles(_, _)
TrackFiles(all, files) ==
    IF files = <<>> THEN all
    ELSE TrackFiles(IF \E k \in DOMAIN all : all[k] = Head(files)
                    THEN all ELSE Append(all, Head(files)),
                    Tail(files))

IsRealChange(mod) == mod.lines_added > 0 \/ mod.lines_deleted > 0

\* a report of every accumulated modification
ModifiedFilesInfo_Unfiltered(mods) == mods

\* modified_files_info: the modifications that added or deleted a line
ModifiedFilesInfo(mods) == SelectSeq(mods, IsRealChange)

\* a failure result that forgets the pending permissions
ApiErrorResult_DropsPending(pending) == AgenticResult(FALSE, "", "LLM API error")

\* the result of a failed model call
ApiErrorResult(pending) ==
    [AgenticResult(FALSE, "", "LLM API error") EXCEPT !.pending_permissions = pending]

\* the result of a final answer
FinalResult(mods, count, pending) ==
    [AgenticResult(TRUE, "final_response", "") EXCEPT
        !.modified_files = ModifiedFilesInfo(mods),
        !.tool_calls_count = count,
        !.pending_permissions = pending]

\* an iteration-limit result with every modification, real or not
LimitResult_Unfiltered(mods, count, pending) ==
    [AgenticResult(FALSE, "", "Max iterations reached without final response") EXCEPT
        !.modified_files = mods,
        !.tool_calls_count = count,
        !.pending_permissions = pending]

\* the result when the for loop ran out
LimitResult(mods, count, pending) ==
    [AgenticResult(FALSE, "", "Max iterations reached without final response") EXCEPT
        !.modified_files = ModifiedFilesInfo(mods),
        !.tool_calls_count = count,
        !.pending_permissions = pending]

\* the calls taken from the last to the first
NextToolCall_Last(calls, done) == calls[Len(calls) - done]

\* for tool_call in message.tool_calls: the call after those already made
NextToolCall(calls, done) == calls[done + 1]

\* a loop index that advances by two
NextIteration_Skip(i) == i + 2

\* for iteration in range(max_iterations): the next index
NextIteration(i) == i + 1

\* the messages a run is started with: a short conversation, and a long one
\* that holds a tool call of an earlier run and its result of 70 lines
InitialMessages ==
    {<<Message("system", Content(10, 10, 4), {}, 0),
       Message("user", Content(1, 50, 4), {}, 0)>>,
     <<Message("system", Content(60, 100, 4), {}, 0),
       Message("user", Content(1, 50, 4), {}, 0),
       Message("assistant", Content(0, 0, 4), {9}, 0),
       Message("tool", Content(70, 100, 4), {}, 9),
       Message("user", Content(100, 140, 4), {}, 0)>>}

EditAB == EditOf(StrV(P_a), StrV(T_a), StrV(T_b))

\* calls the executor answers with an error: a path outside the project, a
\* blocked path, a text the file does not hold, a file that may not exist
FailingCalls ==
    <<ToolCall(1, "read_file", WithPath(StrV(P_up))),
      ToolCall(2, "write_file", [WithPath(StrV(P_env)) EXCEPT !.content = StrV(T_a)]),
      ToolCall(3, "apply_edit", EditOf(StrV(P_a), StrV(T_c), StrV(T_b))),
      ToolCall(4, "read_file", WithPath(StrV(P_sb)))>>

\* the request to delete the file a
DeleteA == ToolCall(7, "delete_file", WithPath(StrV(P_a)))

\* the tool calls the model answers with: an edit, the same edit twice, the
\* same delete twice, a write then a read of the file written, a terminal
\* command, a call whose arguments are no JSON, four calls that fail, one
\* delete
Responses ==
    {<<ToolCall(1, "apply_edit", EditAB)>>,
     <<ToolCall(1, "apply_edit", EditAB), ToolCall(2, "apply_edit", EditAB)>>,
     <<ToolCall(1, "delete_file", WithPath(StrV(P_a))),
       ToolCall(2, "delete_file", WithPath(StrV(P_a)))>>,
     <<ToolCall(1, "write_file", [WithPath(StrV(P_sb)) EXCEPT !.content = StrV(T_abab)]),
       ToolCall(2, "read_file", WithPath(StrV(P_sb)))>>,
     <<ToolCall(1, "execute_terminal", TerminalOf(StrV(T_a), Absent, Absent))>>,
     <<ToolCall(1, "read_file", NoArgs)>>,
     FailingCalls,
     <<DeleteA>>}

\* working_messages = list(messages)
StartRun ==
    /\ pc = "idle"
    /\ \E m \in InitialMessages : caller_messages' = m /\ transcript' = m
    /\ \E n \in 1..MaxIterations : max_iterations' = n
    /\ pc' = "iter"
    /\ UNCHANGED <<regVars, final_response, current_tool_choice, advised, execVars, compacted,
                   cstage, iteration, attempt, slept, tool_calls, dispatched,
                   pending_permissions, all_modified_files,
                   all_file_modifications, tool_calls_count, last_error, changed,
                   agentic_result>>

\* the head of an iteration: the budget enforced, the advisory messages
BeginIteration ==
    /\ pc = "iter"
    /\ iteration < max_iterations
    /\ transcript' = _enforce_context_budget(_truncate_tool_results(transcript),
                                             MAX_CONTEXT_BUDGET)
                        \o Advisories(iteration)
    /\ attempt' = 0
    /\ slept' = <<>>
    /\ pc' = "call"
    /\ current_tool_choice' = ToolChoice(iteration, tool_calls_count)
    /\ advised' = advised \o [k \in DOMAIN Advisories(iteration) |->
                               [iteration |-> iteration, message |-> Advisories(iteration)[k]]]
    /\ caller_messages' = WrittenThrough(caller_messages, transcript, MAX_CONTEXT_BUDGET)
    /\ UNCHANGED <<regVars, final_response, max_iterations, execVars, compacted, cstage,
                   iteration, tool_calls, dispatched, pending_permissions, all_modified_files,
                   all_file_modifications, tool_calls_count, last_error, changed,
                   agentic_result>>

\* the for loop ran out
IterationLimit ==
    /\ pc = "iter"
    /\ iteration >= max_iterations
    /\ agentic_result' = LimitResult(all_file_modifications, tool_calls_count,
                                     pending_permissions)
    /\ pc' = "done"
    /\ UNCHANGED <<regVars, final_response, current_tool_choice, max_iterations, advised, caller_messages, execVars, compVars, iteration, attempt, slept, tool_calls, dispatched,
                   pending_permissions, all_modified_files, all_file_modifications,
                   tool_calls_count, last_error, changed>>

\* the model call raises an error classified as rate limiting
ModelRateLimited ==
    /\ pc = "call"
    /\ last_error' = "rate_limit"
    /\ IF attempt < MAX_RETRIES - 1
       THEN /\ slept' = Append(slept, RETRY_DELAY * 2 ^ attempt)
            /\ attempt' = attempt + 1
            /\ UNCHANGED <<pc, agentic_result>>
       ELSE /\ agentic_result' = ApiErrorResult(pending_permissions)
            /\ pc' = "done"
            /\ UNCHANGED <<slept, attempt>>
    /\ UNCHANGED <<regVars, final_response, current_tool_choice, max_iterations, advised, caller_messages, execVars, compVars, iteration, tool_calls, dispatched,
                   pending_permissions, all_modified_files, all_file_modifications,
                   tool_calls_count, changed>>

\* the model call raises any other error
ModelFails ==
    /\ pc = "call"
    /\ last_error' = "other"
    /\ agentic_result' = ApiErrorResult(pending_permissions)
    /\ pc' = "done"
    /\ UNCHANGED <<regVars, final_response, current_tool_choice, max_iterations, advised, caller_messages, execVars, compVars, iteration, attempt, slept, tool_calls, dispatched,
                   pending_permissions, all_modified_files, all_file_modifications,
                   tool_calls_count, changed>>

\* the model answers with tool calls
ModelCallsTools ==
    /\ pc = "call"
    /\ \E r \in Responses :
           /\ transcript' = Append(transcript, AssistantMessage(r))
           /\ tool_calls' = r
    /\ dispatched' = <<>>
    /\ last_error' = "none"
    /\ pc' = "tools"
    /\ UNCHANGED <<regVars, final_response, current_tool_choice, max_iterations, advised, caller_messages, execVars, compacted, cstage, iteration, attempt, slept,
                   pending_permissions, all_modified_files, all_file_modifications,
                   tool_calls_count, changed, agentic_result>>

\* one turn of the loop over message.tool_calls
DispatchToolCall ==
    /\ pc = "tools"
    /\ Len(dispatched) < Len(tool_calls)
    /\ LET c == NextToolCall(tool_calls, Len(dispatched))
           o == execute(c.name, fs, auto_mode, c.arguments, TRUE)
           r == o.r
       IN  /\ fs' = o.fs
           /\ tool_calls_count' = tool_calls_count + 1
           /\ dispatched' = Append(dispatched, c)
           /\ transcript' = Append(transcript, ToolMessage(c.id))
           /\ changed' = IF o.fs # fs THEN changed \cup {c.arguments.path.s} ELSE changed
           /\ IF r.permission_required
              THEN /\ pending_permissions' =
                          IF IsDuplicate(pending_permissions, c.name, r, c.arguments)
                          THEN pending_permissions
                          ELSE Append(pending_permissions, PendingEntry(c, r))
                   /\ UNCHANGED <<all_modified_files, all_file_modifications>>
              ELSE /\ all_modified_files' = TrackFiles(all_modified_files, r.modified_files)
                   /\ all_file_modifications' = all_file_modifications \o r.file_modifications
                   /\ UNCHANGED pending_permissions
    /\ IF Len(dispatched) + 1 = Len(tool_calls)
       THEN pc' = "iter" /\ iteration' = NextIteration(iteration)
       ELSE UNCHANGED <<pc, iteration>>
    /\ UNCHANGED <<regVars, final_response, current_tool_choice, max_iterations, advised, caller_messages, auto_mode, call, res, raised, pre, spawned, compacted, cstage,
                   attempt, slept, tool_calls, last_error, agentic_result>>

\* Python: text.lower(), for the letters A to Z
UpperLetters == <<"A", "B", "C", "D", "E", "F", "G", "H", "I", "J", "K", "L", "M", "N", "O", "P", "Q", "R", "S", "T", "U", "V", "W", "X", "Y", "Z">>
LowerLetters == <<"a", "b", "c", "d", "e", "f", "g", "h", "i", "j", "k", "l", "m", "n", "o", "p", "q", "r", "s", "t", "u", "v", "w", "x", "y", "z">>

Lower(text) ==
    [k \in DOMAIN text |->
        IF \E i \in DOMAIN UpperLetters : UpperLetters[i] = text[k]
        THEN LowerLetters[CHOOSE i \in DOMAIN UpperLetters : UpperLetters[i] = text[k]]
        ELSE text[k]]

\* the character "BQ" stands for the backquote, U+0060
Fence == <<"BQ", "BQ", "BQ">>

\* five of the entries of lazy_patterns
lazy_patterns ==
    {<<"w", "o", "u", "l", "d", " ", "c", "h", "a", "n", "g", "e">>,
     <<"I", " ", "s", "u", "g", "g", "e", "s", "t">>,
     <<"O", "R", "I", "G", "I", "N", "A", "L", ":">>,
     Fence,
     <<"-", ">">>}

\* Fence in final_response and final_response.count(Fence) >= 2
has_code_block(text) == Contains(text, Fence) /\ Count(text, Fence) >= 2

\* a detector that finds nothing
is_lazy_response_Never(text) == FALSE

is_lazy_response(text) ==
    \/ \E pattern \in lazy_patterns : Contains(Lower(text), Lower(pattern))
    \/ has_code_block(text)

\* texts of a response without tool calls: no content, plain prose, prose
\* with two fenced code blocks, a suggestion, a mapping with an arrow
R_none    == <<>>
R_prose   == <<"d", "o", "n", "e">>
R_fences  == <<"d", "o", " ", "BQ", "BQ", "BQ", "a", "BQ", "BQ", "BQ", " ", "o", "r", " ", "BQ", "BQ", "BQ", "b", "BQ", "BQ", "BQ">>
R_suggest == <<"i", " ", "S", "U", "G", "G", "E", "S", "T", " ", "i", "t">>
R_arrow   == <<"a", " ", "-", ">", " ", "b">>

FinalResponses == {R_none, R_prose, R_fences, R_suggest, R_arrow}

\* the model answers with text only: a lazy answer is sent back while
\* iterations remain and few tools were called, any other answer is final
ModelAnswers ==
    /\ pc = "call"
    /\ last_error' = "none"
    /\ \E text \in FinalResponses :
           /\ final_response' = text
           /\ IF /\ is_lazy_response(text)
                 /\ iteration < max_iterations - 1
                 /\ tool_calls_count < LAZY_CALLS_CEILING
              THEN /\ transcript' = transcript
                          \o <<Message("assistant", Content(1, 50, 4), {}, 0),
                               Message("user", Content(10, 8, 4), {}, 0)>>
                   /\ iteration' = NextIteration(iteration)
                   /\ pc' = "iter"
                   /\ UNCHANGED agentic_result
              ELSE /\ agentic_result' = FinalResult(all_file_modifications,
                                                    tool_calls_count, pending_permissions)
                   /\ pc' = "done"
                   /\ UNCHANGED <<transcript, iteration>>
    /\ UNCHANGED <<regVars, current_tool_choice, max_iterations, advised, caller_messages, execVars, compacted, cstage, attempt, slept,
                   tool_calls, dispatched, pending_permissions, all_modified_files,
                   all_file_modifications,
                   tool_calls_count, changed>>

NextDriver ==
    \/ StartRun
    \/ BeginIteration
    \/ IterationLimit
    \/ ModelRateLimited
    \/ ModelFails
    \/ ModelCallsTools
    \/ DispatchToolCall
    \/ ModelAnswers

SpecDriver == Init /\ [][NextDriver]_vars

\* a step of the driver that waits for no tool
DriverStep ==
    \/ StartRun
    \/ BeginIteration
    \/ IterationLimit
    \/ ModelRateLimited
    \/ ModelFails
    \/ ModelCallsTools
    \/ ModelAnswers

\* executor.execute returns to the loop over the tool calls
ToolCallReturns ==
    /\ pc = "tools"
    /\ Len(dispatched) < Len(tool_calls)
    /\ dispatched' = Append(dispatched, NextToolCall(tool_calls, Len(dispatched)))

\* every model call and every tool call returns
SpecDriverFair == SpecDriver /\ WF_vars(DriverStep) /\ WF_dispatched(ToolCallReturns)

(***************************************************************************)
(* The mode manager (backend/app/mode_manager.py): the operating mode, the *)
(* permission table, and the process-wide map of pending actions with the  *)
(* endpoints of backend/app/main.py that work on it.  The endpoints are    *)
(* plain functions, which the server runs on the threads of a pool; the    *)
(* manager takes no lock, so a thread can be interrupted between the       *)
(* membership test of approve_action or reject_action and the statement    *)
(* after it.                                                               *)
(***************************************************************************)
OperationModes == {"manual", "auto", "agentic"}

ActionTypes == {"code_modify", "code_create", "code_delete", "terminal_exec",
                "terminal_dangerous", "file_rename", "agent_start", "suggestion"}

ALWAYS_ASK_PERMISSION == {"code_delete", "terminal_dangerous"}

DANGEROUS_PATTERNS ==
    {<<"r", "m", " ", "-", "r", "f">>,
     <<"d", "e", "l", " ", "/", "s", " ", "/", "q">>,
     <<"f", "o", "r", "m", "a", "t">>,
     <<"r", "m", "d", "i", "r", " ", "/", "s">>,
     <<"R", "e", "m", "o", "v", "e", "-", "I", "t", "e", "m", " ", "-", "R", "e", "c", "u", "r", "s", "e", " ", "-", "F", "o", "r", "c", "e">>,
     <<":", "(", ")", "{", ":", "|", ":", "&", "}", ";", ":">>,
     <<"d", "r", "o", "p", " ", "d", "a", "t", "a", "b", "a", "s", "e">>,
     <<"t", "r", "u", "n", "c", "a", "t", "e", " ", "t", "a", "b", "l", "e">>}

\* a resolution that lets the auto flag win over the agentic flag
get_effective_mode_AutoFirst(auto, agentic) ==
    IF auto THEN "auto"
    ELSE IF agentic THEN "agentic"
    ELSE "manual"

get_effective_mode(auto, agentic) ==
    IF agentic THEN "agentic"
    ELSE IF auto THEN "auto"
    ELSE "manual"

\* a check that finds no command dangerous
_is_dangerous_command_Never(command) == FALSE

_is_dangerous_command(command) ==
    \E pattern \in DANGEROUS_PATTERNS : Contains(Lower(command), Lower(pattern))

\* details: present is FALSE for None and for an empty dict; command is
\* details.get("command", "")
requires_permission(action_type, mode, details) ==
    IF action_type \in ALWAYS_ASK_PERMISSION THEN TRUE
    ELSE IF /\ action_type = "terminal_exec"
            /\ details.present
            /\ _is_dangerous_command(details.command) THEN TRUE
    ELSE IF mode = "manual" THEN TRUE
    ELSE IF mode = "auto" THEN FALSE
    ELSE IF mode = "agentic" THEN FALSE
    ELSE TRUE

\* PendingAction(id, action_type, description, details): approved is None
PendingAction(action_type) == [action_type |-> action_type, approved |-> "None"]

\* d with the key k bound to v, d without the key k
DictSet(d, k, v) == [x \in (DOMAIN d) \cup {k} |-> IF x = k THEN v ELSE d[x]]
DictPop(d, k) == [x \in (DOMAIN d) \ {k} |-> d[x]]

Reply(op, id, out) == [op |-> op, id |-> id, out |-> out, listed |-> {}]

\* commands: a harmless one, one per pattern (two in another case), and one
\* that deletes without holding a pattern
Cmd_ls == <<"l", "s", " ", "-", "l">>
Cmd_rm == <<"r", "m", " ", "-", "r", "f", " ", "/">>
Cmd_RM == <<"s", "u", "d", "o", " ", "R", "M", " ", "-", "R", "F", " ", "x">>
Cmd_del == <<"d", "e", "l", " ", "/", "s", " ", "/", "q", " ", "c">>
Cmd_format == <<"f", "o", "r", "m", "a", "t", " ", "c", ":">>
Cmd_rmdir == <<"r", "m", "d", "i", "r", " ", "/", "s", " ", "d">>
Cmd_remove == <<"r", "e", "m", "o", "v", "e", "-", "i", "t", "e", "m", " ", "-", "r", "e", "c", "u", "r", "s", "e", " ", "-", "f", "o", "r", "c", "e", " ", "d">>
Cmd_bomb == <<":", "(", ")", "{", ":", "|", ":", "&", "}", ";", ":">>
Cmd_drop == <<"D", "R", "O", "P", " ", "D", "A", "T", "A", "B", "A", "S", "E", " ", "x">>
Cmd_truncate == <<"t", "r", "u", "n", "c", "a", "t", "e", " ", "t", "a", "b", "l", "e", " ", "t">>
Cmd_rm_r == <<"r", "m", " ", "-", "r", " ", "-", "f", " ", "x">>

Commands == {Cmd_ls, Cmd_rm, Cmd_RM, Cmd_del, Cmd_format, Cmd_rmdir, Cmd_remove, Cmd_bomb, Cmd_drop, Cmd_truncate, Cmd_rm_r}

DetailsOf(command) == [present |-> TRUE, command |-> command]

\* None, a dict without command, a dict with a command
DetailsArgs ==
    {[present |-> FALSE, command |-> <<>>], DetailsOf(<<>>)}
        \cup {DetailsOf(c) : c \in Commands}

GetEffectiveMode ==
    \E auto \in BOOLEAN, agentic \in BOOLEAN :
        /\ query' = [NoQuery EXCEPT !.fn = "get_effective_mode",
                                    !.auto_mode = auto, !.agentic_mode = agentic]
        /\ answer' = [mode |-> get_effective_mode(auto, agentic), required |-> FALSE]
        /\ UNCHANGED <<execVars, compVars, drvVars, pending_actions, requests, replies,
                       settled>>

RequiresPermission ==
    \E action_type \in ActionTypes, mode \in OperationModes, details \in DetailsArgs :
        /\ query' = [NoQuery EXCEPT !.fn = "requires_permission",
                                    !.action_type = action_type, !.mode = mode,
                                    !.details = details]
        /\ answer' = [mode |-> "",
                      required |-> requires_permission(action_type, mode, details)]
        /\ UNCHANGED <<execVars, compVars, drvVars, pending_actions, requests, replies,
                       settled>>

\* create_pending_action: the id is one uuid4 has not given yet
CreatePendingAction(t) ==
    /\ requests[t] = NoRequest
    /\ \E id \in ActionIds \ DOMAIN settled, action_type \in {"code_modify", "terminal_exec"} :
           /\ pending_actions' = DictSet(pending_actions, id, PendingAction(action_type))
           /\ settled' = DictSet(settled, id, {})
           /\ replies' = [replies EXCEPT ![t] = Reply("create", id, "action")]
    /\ UNCHANGED <<execVars, compVars, drvVars, requests, query, answer>>

\* approve_action: if action_id in self.pending_actions ... return None
ApproveTest(t) ==
    /\ requests[t] = NoRequest
    /\ \E id \in ActionIds :
           IF id \in DOMAIN pending_actions
           THEN /\ requests' = [requests EXCEPT ![t] = [op |-> "approve", id |-> id]]
                /\ UNCHANGED replies
           ELSE /\ replies' = [replies EXCEPT ![t] = Reply("approve", id, "None")]
                /\ UNCHANGED requests
    /\ UNCHANGED <<execVars, compVars, drvVars, pending_actions, settled, query, answer>>

\* reject_action: if action_id in self.pending_actions ... return None
RejectTest(t) ==
    /\ requests[t] = NoRequest
    /\ \E id \in ActionIds :
           IF id \in DOMAIN pending_actions
           THEN /\ requests' = [requests EXCEPT ![t] = [op |-> "reject", id |-> id]]
                /\ UNCHANGED replies
           ELSE /\ replies' = [replies EXCEPT ![t] = Reply("reject", id, "None")]
                /\ UNCHANGED requests
    /\ UNCHANGED <<execVars, compVars, drvVars, pending_actions, settled, query, answer>>

\* approve_action: action = self.pending_actions[action_id];
\* action.approved = True; return action
ApproveAct(t) ==
    /\ requests[t].op = "approve"
    /\ LET id == requests[t].id
       IN  IF id \in DOMAIN pending_actions
           THEN /\ pending_actions' = [pending_actions EXCEPT ![id].approved = "True"]
                /\ settled' = [settled EXCEPT ![id] = @ \cup {<<t, "approve">>}]
                /\ replies' = [replies EXCEPT ![t] = Reply("approve", id, "action")]
           ELSE /\ replies' = [replies EXCEPT ![t] = Reply("approve", id, "KeyError")]
                /\ UNCHANGED <<pending_actions, settled>>
    /\ requests' = [requests EXCEPT ![t] = NoRequest]
    /\ UNCHANGED <<execVars, compVars, drvVars, query, answer>>

\* reject_action: action = self.pending_actions.pop(action_id);
\* action.approved = False; return action
RejectAct(t) ==
    /\ requests[t].op = "reject"
    /\ LET id == requests[t].id
       IN  IF id \in DOMAIN pending_actions
           THEN /\ pending_actions' = DictPop(pending_actions, id)
                /\ settled' = [settled EXCEPT ![id] = @ \cup {<<t, "reject">>}]
                /\ replies' = [replies EXCEPT ![t] = Reply("reject", id, "action")]
           ELSE /\ replies' = [replies EXCEPT ![t] = Reply("reject", id, "KeyError")]
                /\ UNCHANGED <<pending_actions, settled>>
    /\ requests' = [requests EXCEPT ![t] = NoRequest]
    /\ UNCHANGED <<execVars, compVars, drvVars, query, answer>>

\* get_pending_actions: list(self.pending_actions.values())
GetPendingActions(t) ==
    /\ requests[t] = NoRequest
    /\ replies' = [replies EXCEPT ![t] =
                       [Reply("list", 0, "list") EXCEPT !.listed = DOMAIN pending_actions]]
    /\ UNCHANGED <<execVars, compVars, drvVars, pending_actions, requests, settled,
                   query, answer>>

\* clear_pending_actions: self.pending_actions.clear()
ClearPendingActions(t) ==
    /\ requests[t] = NoRequest
    /\ pending_actions' = <<>>
    /\ replies' = [replies EXCEPT ![t] = Reply("clear", 0, "ok")]
    /\ UNCHANGED <<execVars, compVars, drvVars, requests, settled, query, answer>>

\* the two functions of the manager, over a map that holds at most one action
NextMode ==
    \/ GetEffectiveMode
    \/ RequiresPermission
    \/ pending_actions = <<>> /\ CreatePendingAction("t1")

SpecMode == Init /\ [][NextMode]_vars

\* the operations on the map, from any thread in any order
NextRegistry ==
    \/ \E t \in Threads : CreatePendingAction(t)
    \/ \E t \in Threads : ApproveTest(t)
    \/ \E t \in Threads : ApproveAct(t)
    \/ \E t \in Threads : RejectTest(t)
    \/ \E t \in Threads : RejectAct(t)
    \/ \E t \in Threads : GetPendingActions(t)
    \/ \E t \in Threads : ClearPendingActions(t)

SpecRegistry == Init /\ [][NextRegistry]_vars

(***************************************************************************)
(* Properties of the executor.                                             *)
(***************************************************************************)
ViaExecute(tool) == call.entry = "execute" /\ call.tool = tool

\* the path argument of the call in progress is a str
PathGiven == call.entry # "none" /\ IsStr(call.args.path)

\* C1: for every call dispatched through execute, a result with
\* permission_required = true has success = false, and the file system is
\* the one the call started with.
C1_GatedCallChangesNothing ==
    (call.entry = "execute" /\ res.permission_required)
        => (~res.success /\ fs = pre)

C1_Witness ==
    /\ ViaExecute("apply_edit")
    /\ ~auto_mode
    /\ res.permission_required
    /\ res.permission_type = "edit"

\* C2: delete_file through execute never removes the file, in any mode; on
\* a file that exists it answers success = false, permission_required = true
\* with kind "delete" and the file is still there; a file is removed only
\* by delete_file_approved.
C2_DeleteOnlyWhenApproved ==
    /\ ViaExecute("delete_file") => fs = pre
    /\ (ViaExecute("delete_file") /\ PathGiven
          /\ _resolve_path(call.args.path.s) # None
          /\ is_file(pre, _resolve_path(call.args.path.s)))
        => /\ ~res.success
           /\ res.permission_required
           /\ res.permission_type = "delete"
           /\ is_file(fs, _resolve_path(call.args.path.s))
    /\ (\E n \in Nodes : is_file(pre, n) /\ ~exists(fs, n))
        => call.entry = "delete_file_approved"

C2_Witness ==
    /\ ViaExecute("delete_file")
    /\ auto_mode
    /\ res.permission_type = "delete"
    /\ is_file(fs, N_a)
    /\ call.args.path = StrV(P_a)

\* the argument map binds to the parameters of _execute_terminal and its
\* timeout and working_directory have the types the handler computes with
WellFormedTerminal(a) ==
    /\ a.command # Absent
    /\ a.description # Absent
    /\ ~a.extra
    /\ Given(a) \subseteq {"command", "description", "working_directory", "timeout"}
    /\ a.timeout.t \in {"absent", "int"}
    /\ a.working_directory.t \in {"absent", "str"}

C4_ManualModeGate ==
    (call.entry = "execute"
        /\ call.tool \in {"write_file", "apply_edit", "create_directory"})
        => /\ res.permission_required => ~auto_mode
           /\ ~auto_mode => fs = pre
           /\ (auto_mode /\ res.success)
                => LET r == _resolve_path(call.args.path.s)
                   IN  CASE call.tool = "create_directory" -> is_dir(fs, r)
                         [] call.tool = "write_file" ->
                              /\ is_file(fs, r)
                              /\ Len(res.file_modifications) = 1
                              /\ ~detect_mojibake(call.args.content.s)
                                   => fs[r].content = call.args.content.s
                         [] call.tool = "apply_edit" ->
                              /\ is_file(fs, r)
                              /\ Len(res.file_modifications) = 1
                              /\ ~Contains(fs[r].content, call.args.old_text.s)
                                   \/ Contains(call.args.new_text.s, call.args.old_text.s)
                                   \/ Count(pre[r].content, call.args.old_text.s) > 1

C4_Witness ==
    /\ ViaExecute("create_directory")
    /\ ~auto_mode
    /\ res.permission_type = "create_directory"
    /\ call.args.path = StrV(P_sb)
    /\ ~exists(fs, N_sb)

\* a segment of the path is ".."
HasParentSegment(path) ==
    \E i \in 1..Len(SplitOn(path, "/")) : SplitOn(path, "/")[i] = <<".", ".">>

FileSystemTools == {"read_file", "write_file", "apply_edit", "list_directory",
                    "search_in_files", "create_directory", "delete_file",
                    "get_file_info"}

\* C5 as stated: for every path with a parent-traversal segment or matching
\* a blocked pattern, resolution fails and every file-system tool and every
\* *_approved entry point returns a failed result and touches nothing.
C5_AsStated ==
    (PathGiven /\ call.tool \in FileSystemTools
        /\ (HasParentSegment(call.args.path.s) \/ MatchesBlocked(call.args.path.s)))
        => /\ _resolve_path(call.args.path.s) = None
           /\ ~res.success
           /\ fs = pre

\* C6 as stated: a path is accepted only when its canonical form is the
\* project root or a path-segment descendant of it.
C6_AsStated ==
    (PathGiven /\ _resolve_path(call.args.path.s) # None)
        => \/ _resolve_path(call.args.path.s) = project_root
           \/ StartsWith(_resolve_path(call.args.path.s), project_root \o <<"/">>)

\* C7: for every tool name and argument map, execute returns a ToolResult
\* and lets no exception out; an unknown tool, a map that does not bind and
\* any other failure that is no permission request give success = false
\* with an error text.
C7_ExecuteNeverRaises ==
    call.entry = "execute"
        => /\ ~raised
           /\ res.success \in BOOLEAN
           /\ (call.tool \notin ToolNames \/ ~Binds(call.tool, call.args))
                => (~res.success /\ res.error # "")
           /\ (~res.success /\ ~res.permission_required) => res.error # ""

C7_Witness ==
    /\ ViaExecute("write_file")
    /\ call.args.content = Absent
    /\ ~res.success
    /\ res.error = "Tool execution error"

\* C8 as stated: on every write path, through execute or through
\* write_file_approved, a write over an existing file of more than
\* TRUNCATE_MIN_ORIGINAL characters with a content of less than half its
\* length is blocked: the result fails and the file keeps its content.
C8_AsStated ==
    (PathGiven /\ call.tool = "write_file" /\ IsStr(call.args.content)
        /\ ~call.args.extra
        /\ _resolve_path(call.args.path.s) # None
        /\ is_file(pre, _resolve_path(call.args.path.s))
        /\ Len(pre[_resolve_path(call.args.path.s)].content) > TRUNCATE_MIN_ORIGINAL
        /\ 2 * Len(call.args.content.s)
             < Len(pre[_resolve_path(call.args.path.s)].content))
        => /\ ~res.success
           /\ fs = pre

\* C9: apply_edit and apply_edit_approved with old_text = new_text, for
\* every text, mode and path, return success = false, never ask for
\* permission and leave the file unchanged.
C9_NoopEditRejected ==
    (call.tool = "apply_edit" /\ PathGiven /\ IsStr(call.args.old_text)
        /\ call.args.old_text = call.args.new_text)
        => (~raised /\ ~res.success /\ ~res.permission_required /\ fs = pre)

C9_Witness ==
    /\ ViaExecute("apply_edit")
    /\ ~auto_mode
    /\ call.args.path = StrV(P_a)
    /\ call.args.old_text = StrV(T_a)
    /\ call.args.new_text = StrV(T_a)
    /\ is_file(fs, N_a)
    /\ res.error = "old_text and new_text are the same"

(***************************************************************************)
(* Properties of the context budget.                                       *)
(***************************************************************************)
\* C10 as stated: for every transcript whose token count exceeds budget
\* minus reserve, what the budget enforcement returns has a token count of
\* at most budget minus reserve.
C10_AsStated ==
    (cstage = "out"
        /\ count_messages_tokens(transcript) > MAX_CONTEXT_BUDGET - RESERVE_FOR_OUTPUT)
        => count_messages_tokens(compacted) <= MAX_CONTEXT_BUDGET - RESERVE_FOR_OUTPUT

\* the budget the transcript has to fit
TargetBudget == MAX_CONTEXT_BUDGET - RESERVE_FOR_OUTPUT

\* index of the most recent user message of a transcript that has one
LastUserIndex(msgs) ==
    CHOOSE i \in DOMAIN msgs :
        /\ msgs[i].role = "user"
        /\ \A j \in DOMAIN msgs : j > i => msgs[j].role # "user"

HasUser(msgs) == \E i \in DOMAIN msgs : msgs[i].role = "user"

\* C11: for every transcript with a user message, what the budget
\* enforcement returns contains the most recent user message of the input,
\* its content as it was.
C11_LastUserKept ==
    (cstage = "out" /\ HasUser(transcript))
        => \E j \in DOMAIN compacted :
               compacted[j] = transcript[LastUserIndex(transcript)]

C11_Witness ==
    /\ cstage = "out"
    /\ compacted # transcript
    /\ count_messages_tokens(transcript) > TargetBudget
    /\ \E i \in DOMAIN transcript :
           /\ transcript[i].role = "user"
           /\ i < LastUserIndex(transcript)
           /\ transcript[i] # transcript[LastUserIndex(transcript)]
    /\ \E j \in DOMAIN compacted :
           compacted[j] = transcript[LastUserIndex(transcript)]

\* a tool result the per-message pass cuts
Oversized(m) ==
    /\ m.role = "tool"
    /\ count_tokens(m.content) > MAX_TOOL_RESULT_TOKENS
    /\ LineCount(m.content) > 80

C13_AsStated ==
    pc = "call" => count_messages_tokens(transcript) <= TargetBudget

\* C14: every run in which each model call and tool call returns ends,
\* with a success or a failure, after at most max_iterations iterations;
\* the iteration index starts at 0 and a step leaves it or adds one to it;
\* nothing happens after the end; a run ends by a final answer of the
\* model, by a failed model call, or by the iteration limit.
C14_RunTerminates ==
    /\ iteration = 0
    /\ [](pc \in {"call", "tools"} => iteration < max_iterations)
    /\ [][iteration' = iteration \/ iteration' = iteration + 1]_vars
    /\ [][pc = "done" => UNCHANGED vars]_vars
    /\ <>(pc = "done")
    /\ [](pc = "done" =>
            \/ agentic_result.success /\ last_error = "none"
            \/ /\ ~agentic_result.success
               /\ last_error \in {"rate_limit", "other"}
               /\ agentic_result.error = "LLM API error"
            \/ /\ ~agentic_result.success
               /\ iteration = max_iterations
               /\ agentic_result.error = "Max iterations reached without final response")

C14_Witness ==
    /\ pc = "done"
    /\ agentic_result.success
    /\ iteration = max_iterations - 1
    /\ tool_calls_count >= 3

\* the ids of the tool messages that end the transcript, n of them
ToolIdsAtEnd(msgs, n) ==
    [k \in 1..n |-> msgs[Len(msgs) - n + k].id]

\* C15: while the tool calls c1..cn of a response are worked on, the calls
\* dispatched so far are c1..ck in the order requested, and the transcript
\* ends with the assistant message that carries the calls followed by
\* exactly one tool message per dispatched call, with that call's id, in
\* the same order; each dispatch takes the next call, so none is taken
\* twice and none is skipped, and the loop leaves the response only when
\* all n are done.
C15_CallsInOrder ==
    /\ pc = "tools" =>
          /\ Len(dispatched) < Len(tool_calls)
          /\ dispatched = SubSeq(tool_calls, 1, Len(dispatched))
          /\ Len(transcript) > Len(dispatched)
          /\ transcript[Len(transcript) - Len(dispatched)] = AssistantMessage(tool_calls)
          /\ \A k \in 1..Len(dispatched) :
                 /\ transcript[Len(transcript) - Len(dispatched) + k].role = "tool"
                 /\ transcript[Len(transcript) - Len(dispatched) + k].id = tool_calls[k].id
    /\ (pc = "iter" /\ tool_calls # <<>> /\ dispatched # <<>>
            /\ transcript[Len(transcript)].role = "tool") =>
          /\ dispatched = tool_calls
          /\ Len(transcript) > Len(tool_calls)
          /\ transcript[Len(transcript) - Len(tool_calls)] = AssistantMessage(tool_calls)
          /\ ToolIdsAtEnd(transcript, Len(tool_calls))
                 = [k \in 1..Len(tool_calls) |-> tool_calls[k].id]

C15_Witness ==
    /\ pc = "iter"
    /\ Len(tool_calls) = 2
    /\ dispatched = tool_calls
    /\ transcript[Len(transcript)].role = "tool"
    /\ ToolIdsAtEnd(transcript, 2) = <<1, 2>>
    /\ tool_calls[1].name = "write_file"
    /\ tool_calls_count >= 2

\* the triple a pending entry is identified by: tool name, permission
\* kind, arguments as the model requested them
Triple(entry) == <<entry.tool_name, entry.permission_type, entry.arguments.base>>

\* C16: the pending-permission list never holds two entries with the same
\* triple (tool name, permission kind, requested arguments).
C16_AsStated ==
    \A i, j \in DOMAIN pending_permissions :
        Triple(pending_permissions[i]) = Triple(pending_permissions[j]) => i = j

\* C17: a run that fails on rate limiting has retried the model call 3
\* times, each retry after a wait twice as long as the one before; a retry
\* leaves the iteration index alone.
C17_AsStated ==
    /\ (pc = "done" /\ last_error = "rate_limit") => Len(slept) = MAX_RETRIES
    /\ \A k \in 1..(Len(slept) - 1) : slept[k + 1] = 2 * slept[k]
    /\ Len(slept) = attempt

\* C18: a model call that fails with an error other than rate limiting
\* ends the run in that very step: no wait is added, no retry counted, no
\* tool dispatched, no file touched; the result has success = false and
\* the pending permissions accumulated so far.
C18_OtherFailureEndsRun ==
    [][(pc = "call" /\ last_error' = "other") =>
          /\ pc' = "done"
          /\ ~agentic_result'.success
          /\ agentic_result'.pending_permissions = pending_permissions
          /\ UNCHANGED <<slept, attempt, dispatched, tool_calls_count, fs,
                         transcript, pending_permissions, iteration>>]_vars

C18_Witness ==
    /\ pc = "done"
    /\ last_error = "other"
    /\ ~agentic_result.success
    /\ Len(pending_permissions) >= 2
    /\ agentic_result.pending_permissions = pending_permissions
    /\ slept = <<>>

\* C19: a run whose max_iterations iterations all complete without a final
\* answer ends with success = false, the iteration-limit error, the
\* accumulated file modifications that added or deleted a line, the number
\* of tool calls made, and the accumulated pending permissions.
C19_IterationLimitResult ==
    (pc = "done" /\ iteration = max_iterations) =>
        /\ ~agentic_result.success
        /\ agentic_result.error = "Max iterations reached without final response"
        /\ agentic_result.modified_files = SelectSeq(all_file_modifications, IsRealChange)
        /\ agentic_result.tool_calls_count = tool_calls_count
        /\ agentic_result.pending_permissions = pending_permissions

C19_Witness ==
    /\ pc = "done"
    /\ iteration = max_iterations
    /\ pending_permissions # <<>>
    /\ agentic_result.modified_files # <<>>
    /\ agentic_result.modified_files # all_file_modifications
    /\ agentic_result.tool_calls_count > max_iterations

\* C20: a run that ended with success = false lists in modified_files
\* every file a non-gated tool call of the run changed.
C20_AsStated ==
    (pc = "done" /\ ~agentic_result.success) =>
        \A p \in changed :
            \E k \in DOMAIN agentic_result.modified_files :
                agentic_result.modified_files[k].path = p

\* the result of the tool call the loop is about to dispatch
PendingResult ==
    LET c == tool_calls[Len(dispatched) + 1]
    IN  execute(c.name, fs, auto_mode, c.arguments, TRUE).r

\* C21: a tool call that the executor answers with an error or with a
\* permission request does not end the run: the step that dispatches it
\* appends one tool message with the call's id, builds no result, and goes
\* on with the next call or, after the last call, with the next iteration;
\* a run that ends with success = false ends by a failed model call or by
\* the iteration limit.
C21_ToolFailureKeepsRunAlive ==
    /\ [][(pc = "tools" /\ (~PendingResult.success \/ PendingResult.permission_required)) =>
             /\ pc' = IF Len(dispatched) + 1 = Len(tool_calls) THEN "iter" ELSE "tools"
             /\ agentic_result' = agentic_result
             /\ Len(transcript') = Len(transcript) + 1
             /\ transcript'[Len(transcript')].role = "tool"
             /\ transcript'[Len(transcript')].id = tool_calls[Len(dispatched) + 1].id
             /\ Len(dispatched') = Len(dispatched) + 1]_vars
    /\ [](pc = "done" /\ ~agentic_result.success =>
             \/ last_error \in {"rate_limit", "other"}
             \/ iteration = max_iterations)

C21_Witness ==
    /\ pc = "done"
    /\ agentic_result.success
    /\ tool_calls = FailingCalls
    /\ dispatched = tool_calls
    /\ pending_permissions # <<>>
    /\ tool_calls_count > Len(FailingCalls)
    /\ \E k \in DOMAIN transcript : transcript[k].role = "tool" /\ transcript[k].id = 4

\* C22: every entry of a terminal result's modified_files added or deleted
\* a line; after a final answer and after the iteration limit the list is
\* the accumulated file modifications that added or deleted a line, in the
\* order they were made.
C22_OnlyRealChangesReported ==
    pc = "done" =>
        /\ \A k \in DOMAIN agentic_result.modified_files :
               \/ agentic_result.modified_files[k].lines_added > 0
               \/ agentic_result.modified_files[k].lines_deleted > 0
        /\ (agentic_result.success \/ last_error = "none") =>
               agentic_result.modified_files =
                   SelectSeq(all_file_modifications,
                             LAMBDA mod : mod.lines_added > 0 \/ mod.lines_deleted > 0)

C22_Witness ==
    /\ pc = "done"
    /\ agentic_result.success
    /\ Len(agentic_result.modified_files) >= 1
    /\ Len(all_file_modifications) > Len(agentic_result.modified_files)

(***************************************************************************)
(* Properties of the executor and of the driver, continued.                *)
(***************************************************************************)

\* C23: a result of write_file, apply_edit or their approved variants that
\* carries a FileModification comes from a call that changed the content
\* of the file system.
C23_AsStated ==
    (call.tool \in {"write_file", "apply_edit"} /\ res.file_modifications # <<>>)
        => fs # pre

\* a step in which the model answered without tool calls
AnswerStep == pc = "call" /\ pc' \in {"iter", "done"} /\ last_error' = "none"

\* iterations remain after this one and few tools were called so far
MayRedirect == iteration < max_iterations - 1 /\ tool_calls_count < 5

\* C24: when the model answers without tool calls, the detector matches the
\* text, iterations remain after this one and fewer than 5 tool calls were
\* made, the run does not end in that iteration: the transcript grows by
\* the assistant's text and a user directive, no result is built and the
\* next iteration is entered; a text of plain prose with two fenced code
\* blocks is such a text.
C24_LazyResponseRedirected ==
    /\ [][(AnswerStep /\ is_lazy_response(final_response') /\ MayRedirect) =>
             /\ pc' = "iter"
             /\ iteration' = iteration + 1
             /\ iteration' < max_iterations
             /\ agentic_result' = agentic_result
             /\ Len(transcript') = Len(transcript) + 2
             /\ SubSeq(transcript', 1, Len(transcript)) = transcript
             /\ transcript'[Len(transcript) + 1].role = "assistant"
             /\ transcript'[Len(transcript) + 2].role = "user"]_vars
    /\ [][(AnswerStep /\ final_response' = R_fences /\ MayRedirect) => pc' = "iter"]_vars

C24_Witness ==
    /\ pc = "iter"
    /\ final_response = R_fences
    /\ iteration = 1
    /\ tool_calls_count = 0
    /\ Len(transcript) >= 4
    /\ transcript[Len(transcript) - 1].role = "assistant"
    /\ transcript[Len(transcript)].role = "user"

\* C25: a run in which the model asks once for delete_file of an existing
\* file of the project and makes no other tool call ends with a result
\* whose pending_permissions holds exactly one entry, of kind delete, with
\* the id of that call, and the file is still there with its content.
C25_DeleteThenStop ==
    (pc = "done" /\ tool_calls_count = 1 /\ dispatched = <<DeleteA>>) =>
        /\ Len(agentic_result.pending_permissions) = 1
        /\ agentic_result.pending_permissions[1].permission_type = "delete"
        /\ agentic_result.pending_permissions[1].tool_call_id = DeleteA.id
        /\ agentic_result.pending_permissions[1].tool_name = "delete_file"
        /\ is_file(fs, N_a)
        /\ fs = InitFs

C25_Witness ==
    /\ pc = "done"
    /\ auto_mode
    /\ agentic_result.success
    /\ tool_calls_count = 1
    /\ dispatched = <<DeleteA>>
    /\ iteration = 1
    /\ Len(agentic_result.pending_permissions) = 1

(***************************************************************************)
(* Properties of the mode manager.                                         *)
(***************************************************************************)

\* the steps that call get_effective_mode
EffectiveModeStep == query'.fn = "get_effective_mode" /\ <<query, answer>>' # <<query, answer>>

\* C26: get_effective_mode(auto_mode, agentic_mode) answers agentic whenever
\* the agentic flag is set, auto when only the auto flag is set, and manual
\* when neither is set; the call leaves the map of pending actions, and
\* everything else the manager holds, as it was.
C26_EffectiveMode ==
    [][/\ query'.fn = "get_effective_mode" =>
              answer'.mode = CASE query'.agentic_mode -> "agentic"
                               [] ~query'.agentic_mode /\ query'.auto_mode -> "auto"
                               [] OTHER -> "manual"
       /\ EffectiveModeStep =>
              /\ pending_actions' = pending_actions
              /\ settled' = settled
              /\ requests' = requests]_vars

\* both flags set while an action is pending: the answer is agentic
C26_Witness ==
    /\ query.fn = "get_effective_mode"
    /\ query.auto_mode /\ query.agentic_mode
    /\ answer.mode = "agentic"
    /\ pending_actions # <<>>

\* the kinds the executor gates in every mode, and the kinds it gates in
\* manual mode only
GatedInEveryMode == {"terminal_exec", "terminal_dangerous", "code_delete"}
GatedInManualOnly == {"code_modify", "code_create"}

\* the steps that call requires_permission
RequiresPermissionStep ==
    query'.fn = "requires_permission" /\ <<query, answer>>' # <<query, answer>>

\* C27: requires_permission(action_type, mode, details) agrees with the gating
\* of the executor: it answers true for the terminal and delete kinds in every
\* mode and for the write, edit and create kinds exactly in manual mode; for a
\* kind that is not a terminal kind the answer is fixed by the kind and the mode
\* whatever the details are; the call leaves the map of pending actions as it
\* was.
C27_AsStated ==
    [][/\ query'.fn = "requires_permission" =>
              /\ query'.action_type \in GatedInEveryMode => answer'.required
              /\ query'.action_type \in GatedInManualOnly =>
                     (answer'.required <=> query'.mode = "manual")
              /\ query'.action_type \notin {"terminal_exec", "terminal_dangerous"} =>
                     answer'.required =
                         (query'.action_type \in ALWAYS_ASK_PERMISSION
                              \/ query'.mode = "manual")
       /\ RequiresPermissionStep => pending_actions' = pending_actions]_vars

\* the commands of the inputs that hold a deny-listed pattern, in any case
DenyListedCommands == Commands \ {Cmd_ls, Cmd_rm_r}

\* C28: in every mode, requires_permission on a terminal action whose command
\* text contains a deny-listed destructive pattern answers true.
C28_DenyListAlwaysGated ==
    (/\ query.fn = "requires_permission"
     /\ query.action_type \in {"terminal_exec", "terminal_dangerous"}
     /\ query.details.present
     /\ query.details.command \in DenyListedCommands)
        => answer.required

\* an upper-case recursive force-delete asked about in agentic mode, where a
\* harmless terminal command needs no permission
C28_Witness ==
    /\ query.fn = "requires_permission"
    /\ query.action_type = "terminal_exec"
    /\ query.mode = "agentic"
    /\ query.details = DetailsOf(Cmd_RM)
    /\ answer.required
    /\ ~requires_permission("terminal_exec", "agentic", DetailsOf(Cmd_ls))

(***************************************************************************)
(* Properties of the map of pending actions.                               *)
(***************************************************************************)

\* the action ids for which an approve or a reject has returned the action
Resolved == {id \in DOMAIN settled : settled[id] # {}}

\* C29: whatever the sequence of create, approve, reject, list and clear
\* operations, once approve(id) or reject(id) has succeeded the id is no longer
\* in the pending set, so that a list does not return it, and a later
\* approve(id) or reject(id) finds nothing: every pending action is resolved at
\* most once.
C29_AsStated ==
    /\ \A id \in Resolved : id \notin DOMAIN pending_actions
    /\ \A id \in Resolved : Cardinality(settled[id]) = 1

\* C30: the operations on the map shared by the whole process exclude one
\* another: under any interleaving of create, approve, reject, list and clear
\* from concurrent requests each operation takes effect at once, so that of two
\* concurrent rejects of one pending id exactly one returns the action and the
\* other finds nothing, and no operation fails because another changed the map
\* between its membership test and its update.
C30_AsStated ==
    /\ \A t \in Threads : replies[t].out # "KeyError"
    /\ \A id \in DOMAIN settled :
           Cardinality({e \in settled[id] : e[2] = "reject"}) <= 1

(***************************************************************************)
(* Properties of the approved edit.                                        *)
(***************************************************************************)
\* an apply_edit_approved call on a readable file with two different texts
\* and the hash taken when the edit was gated
ApprovedEditWithHash ==
    /\ call.entry = "apply_edit_approved"
    /\ PathGiven
    /\ _resolve_path(call.args.path.s) # None
    /\ is_file(pre, _resolve_path(call.args.path.s))
    /\ IsStr(call.args.old_text) /\ IsStr(call.args.new_text)
    /\ call.args.old_text # call.args.new_text
    /\ IsStr(call.args.expected_file_hash)
    /\ call.args.expected_file_hash.s # <<>>

\* the content of the file of the call before the call, and after it
ContentBefore == LStripBOM(pre[_resolve_path(call.args.path.s)].content)
ContentAfter == fs[_resolve_path(call.args.path.s)].content

\* the call wrote the edit: old_text gave way to new_text and nothing else
\* in the file system changed
EditApplied ==
    /\ res.success
    /\ Len(res.file_modifications) = 1
    /\ ContentAfter # ContentBefore
    /\ \E i \in 1..Len(ContentBefore) :
           /\ OccursAt(ContentBefore, call.args.old_text.s, i)
           /\ ContentAfter = SubSeq(ContentBefore, 1, i - 1) \o call.args.new_text.s
                  \o SubSeq(ContentBefore, i + Len(call.args.old_text.s),
                            Len(ContentBefore))
    /\ \A n \in Nodes \ {_resolve_path(call.args.path.s)} : fs[n] = pre[n]

\* C31: apply_edit_approved with the hash taken at the gate, on a file whose
\* hash is now another: with old_text gone and new_text there the call
\* succeeds and writes nothing; with old_text still there the edit is applied;
\* with both gone the call fails with a file-changed error and the file is as
\* it was.  With the hash unchanged, the edit is applied to the gated content.
C31_StaleApproval ==
    ApprovedEditWithHash =>
        LET old_in == Contains(ContentBefore, call.args.old_text.s)
            new_in == Contains(ContentBefore, call.args.new_text.s)
            stale  == md5(ContentBefore) # call.args.expected_file_hash.s
        IN  /\ (stale /\ ~old_in /\ new_in) =>
                   (res.success /\ fs = pre /\ res.file_modifications = <<>>)
            /\ (stale /\ old_in) => EditApplied
            /\ (stale /\ ~old_in /\ ~new_in) =>
                   (~res.success /\ res.error = "file changed" /\ fs = pre)
            /\ (~stale /\ old_in) => EditApplied

\* an approval of the edit a -> b that comes after the file, gated as abab,
\* has lost its last a: success, nothing written
C31_Witness ==
    /\ ApprovedEditWithHash
    /\ call.args.old_text = StrV(T_a) /\ call.args.new_text = StrV(T_b)
    /\ call.args.expected_file_hash = StrV(md5(T_abab))
    /\ ContentBefore = <<"b", "b", "b", "b">>
    /\ res.success
    /\ fs = pre

\* the file of the call as it was before the call, byte-order mark included
RawBefore == pre[_resolve_path(call.args.path.s)].content

\* C32 as stated: after every successful apply_edit, through execute or
\* through apply_edit_approved, on a file in which old_text occurs at least
\* once, the content of the file is the old content with the first occurrence
\* of old_text replaced by new_text, every other occurrence and every other
\* character being as before.
C32_AsStated ==
    (/\ call.tool = "apply_edit"
     /\ PathGiven
     /\ _resolve_path(call.args.path.s) # None
     /\ is_file(pre, _resolve_path(call.args.path.s))
     /\ IsStr(call.args.old_text) /\ IsStr(call.args.new_text)
     /\ Count(RawBefore, call.args.old_text.s) >= 1
     /\ res.success)
        => ContentAfter = ReplaceFirst(RawBefore, call.args.old_text.s,
                                       call.args.new_text.s)

\* C37 as stated: no edit applied through the executor, by apply_edit in a
\* mode other than manual or by apply_edit_approved after a gate in manual
\* mode, leaves double-encoded text in a file that held none before the edit:
\* such an edit fails and the file is as it was.
C37_AsStated ==
    (/\ call.tool = "apply_edit"
     /\ PathGiven
     /\ _resolve_path(call.args.path.s) # None
     /\ is_file(pre, _resolve_path(call.args.path.s))
     /\ ~detect_mojibake(RawBefore))
        => /\ is_file(fs, _resolve_path(call.args.path.s))
           /\ ~detect_mojibake(ContentAfter)

(***************************************************************************)
(* Properties of the head of an iteration.                                 *)
(***************************************************************************)
\* C33 as stated: in every iteration the model is called with tool use
\* forced in the first two iterations, with tool use forbidden in every
\* iteration that is one of the last two or that starts with more than
\* TOOL_CALLS_CEILING tool calls made, and with a free choice otherwise; the
\* last iteration, the one with the text-only directive, is always called with
\* tool use forbidden.
C33_AsStated ==
    pc = "call" =>
        /\ iteration < 2 => current_tool_choice = "required"
        /\ (iteration >= max_iterations - 2 \/ tool_calls_count > TOOL_CALLS_CEILING)
               => current_tool_choice = "none"
        /\ (/\ iteration >= 2
            /\ iteration < max_iterations - 2
            /\ tool_calls_count <= TOOL_CALLS_CEILING) => current_tool_choice = "auto"
        /\ iteration = max_iterations - 1 => current_tool_choice = "none"

\* the two advisory messages, as the transcript of the model holds them
WarningMessage == Message("user", Content(1, 30, 4), {}, 0)
DirectiveMessage == Message("user", Content(1, 25, 4), {}, 0)

\* the head of the final iteration has run
ReachedFinalIteration ==
    \/ iteration = max_iterations - 1 /\ pc \in {"call", "tools", "done"}
    \/ iteration >= max_iterations /\ pc \in {"iter", "done"}

\* the iterations in which a given advisory message was appended
AdvisedAt(message) ==
    {k \in DOMAIN advised : advised[k].message = message}

\* C34 as stated: a run that reaches its final iteration has appended exactly
\* one warning, at the head of the iteration two before the final one, and
\* exactly one text-only directive, at the head of the final iteration, and no
\* advisory message in any other iteration.
C34_AsStated ==
    ReachedFinalIteration =>
        /\ Cardinality(AdvisedAt(WarningMessage)) = 1
        /\ Cardinality(AdvisedAt(DirectiveMessage)) = 1
        /\ \A k \in DOMAIN advised :
               advised[k].iteration =
                   IF advised[k].message = WarningMessage THEN max_iterations - 3
                   ELSE max_iterations - 1

\* C34, amended: a run that reaches its final iteration has appended exactly
\* one text-only directive, at the head of the final iteration, and, when
\* max_iterations is at least 3, exactly one warning, at the head of the
\* iteration two before the final one; with max_iterations below 3 it has
\* appended no warning.  Each is the last message of the transcript of the
\* model call of its iteration, put in after the budget was enforced, and no
\* advisory message is appended in any other iteration.
C34_Advisories ==
    /\ ReachedFinalIteration =>
           /\ Cardinality(AdvisedAt(DirectiveMessage)) = 1
           /\ Cardinality(AdvisedAt(WarningMessage)) =
                  IF max_iterations >= 3 THEN 1 ELSE 0
    /\ \A k \in DOMAIN advised :
           /\ advised[k].message \in {WarningMessage, DirectiveMessage}
           /\ advised[k].iteration =
                  IF advised[k].message = WarningMessage THEN max_iterations - 3
                  ELSE max_iterations - 1
    /\ pc = "call" =>
           /\ iteration = max_iterations - 1 =>
                  transcript[Len(transcript)] = DirectiveMessage
           /\ iteration = max_iterations - 3 =>
                  transcript[Len(transcript)] = WarningMessage
           /\ (iteration # max_iterations - 1 /\ iteration # max_iterations - 3) =>
                  \A k \in DOMAIN advised : advised[k].iteration # iteration

\* a run of three iterations: the warning came in the first, the directive in
\* the last, which two rounds of tool calls led to
C34_Witness ==
    /\ max_iterations = 3
    /\ pc = "call"
    /\ iteration = 2
    /\ tool_calls_count >= 2
    /\ Len(advised) = 2
    /\ advised[1] = [iteration |-> 0, message |-> WarningMessage]
    /\ advised[2] = [iteration |-> 2, message |-> DirectiveMessage]
    /\ transcript[Len(transcript)] = DirectiveMessage

(***************************************************************************)
(* Properties of the transcript.                                           *)
(***************************************************************************)
\* the tool message at k answers a call of the assistant message at j, with
\* nothing but tool messages between the two
AnswersCallOf(msgs, k, j) ==
    /\ j < k
    /\ msgs[j].role = "assistant"
    /\ msgs[k].id \in msgs[j].calls
    /\ \A l \in (j + 1)..(k - 1) : msgs[l].role = "tool"

\* the ids of the tool messages that follow the message at j without a gap
AnsweredAfter(msgs, j) ==
    {msgs[k].id : k \in {n \in (j + 1)..Len(msgs) :
                            \A l \in (j + 1)..n : msgs[l].role = "tool"}}

\* C35: in every transcript the model is called with, each tool message
\* comes after an assistant message whose tool calls include its
\* tool_call_id, and an assistant message with tool calls has the tool
\* message of every one of its calls right after it: a transcript the budget
\* enforcement has rebuilt holds a group whole or not at all.
C35_GroupsWhole ==
    pc = "call" =>
        /\ \A k \in DOMAIN transcript :
               transcript[k].role = "tool" =>
                   \E j \in DOMAIN transcript : AnswersCallOf(transcript, k, j)
        /\ \A j \in DOMAIN transcript :
               (transcript[j].role = "assistant" /\ transcript[j].calls # {}) =>
                   AnsweredAfter(transcript, j) = transcript[j].calls

\* the last of three iterations, after a round of four tool calls and a lazy
\* answer: the rebuilt transcript has lost the lazy answer and holds the four
\* tool messages behind their assistant message
C35_Witness ==
    /\ pc = "call"
    /\ iteration = 2
    /\ tool_calls_count = 4
    /\ \A k \in DOMAIN transcript :
           transcript[k].role = "assistant" => transcript[k].calls # {}
    /\ \E j \in DOMAIN transcript :
           /\ transcript[j].role = "assistant"
           /\ transcript[j].calls = {1, 2, 3, 4}
           /\ AnsweredAfter(transcript, j) = {1, 2, 3, 4}

\* the head of an iteration that finds the transcript over the budget
RebuildStep ==
    /\ pc = "iter" /\ pc' = "call"
    /\ count_messages_tokens(_truncate_tool_results(transcript))
           > MAX_CONTEXT_BUDGET - RESERVE_FOR_OUTPUT

\* what the budget enforcement of that step returned: the transcript of the
\* model call without the advisory messages put in behind it
RebuiltTranscript ==
    SubSeq(transcript', 1, Len(transcript') - (Len(advised') - Len(advised)))

\* the positions of the user messages of a transcript
UserPositions(msgs) == {k \in DOMAIN msgs : msgs[k].role = "user"}

\* C38: whenever the budget enforcement rebuilds a transcript that is over
\* the budget, what it returns holds exactly one user message, the most
\* recent one of the transcript, and no assistant message without tool
\* calls; every earlier user message is gone, the first request of the run
\* included once a warning, a final directive or a directive against a lazy
\* answer came after it.
C38_OnlyLastUserKept ==
    [][RebuildStep =>
           /\ Cardinality(UserPositions(RebuiltTranscript)) = 1
           /\ \A k \in UserPositions(RebuiltTranscript) :
                  \E j \in UserPositions(transcript) :
                      /\ RebuiltTranscript[k] = transcript[j]
                      /\ \A l \in UserPositions(transcript) : l <= j
           /\ \A k \in DOMAIN RebuiltTranscript :
                  RebuiltTranscript[k].role = "assistant" =>
                      RebuiltTranscript[k].calls # {}]_vars

\* the second model call of a run of three iterations that began with the
\* long request: the transcript has the warning as its only user message
C38_Witness ==
    /\ pc = "call"
    /\ max_iterations = 3
    /\ iteration = 1
    /\ UserPositions(transcript) # {}
    /\ \A k \in UserPositions(transcript) : transcript[k] = WarningMessage
    /\ \E k \in DOMAIN transcript : transcript[k].role = "tool"

\* Properties of the result of a run

\* C40: in the result of every run that ended, by a final answer, by the
\* limit of iterations or by a failed model call, tool_calls_count is the
\* number of tool calls the run gave to the executor.
C40_AsStated ==
    pc = "done" => agentic_result.tool_calls_count = tool_calls_count

\* Properties of the caller's list of messages

\* C39: a run works on a copy of the messages it was given: no step of a
\* run changes the caller's list, neither its length nor any message of it:
\* the budget enforcement writes to no message that it was given.
C39_AsStated == [][pc # "idle" => caller_messages' = caller_messages]_vars

\* Properties of the groups the rebuild keeps

\* the call/response groups of a transcript
GroupsOf(msgs) == ToolPairs(SelectSeq(msgs, IsOther), 1)

\* what the budget enforcement was given
EnforcedInput == _truncate_tool_results(transcript)

\* the rebuild ran: the input was over the target
Rebuilt ==
    /\ cstage = "out"
    /\ count_messages_tokens(EnforcedInput) > MAX_CONTEXT_BUDGET - RESERVE_FOR_OUTPUT

\* the same group, whatever was cut from its results
SameGroup(g, h) ==
    /\ Len(g) = Len(h)
    /\ \A k \in DOMAIN g :
           /\ g[k].role = h[k].role
           /\ g[k].calls = h[k].calls
           /\ g[k].id = h[k].id

\* the 3 most recent groups of a transcript, oldest first
MostRecentGroups(msgs) ==
    LET groups == GroupsOf(msgs)
    IN  SubSeq(groups, Max(1, Len(groups) - 2), Len(groups))

\* C36: what a rebuild returns holds at most 3 call/response groups; they
\* are groups of the 3 most recent ones of the input, in the order they had
\* there, and they are the oldest of those 3 with none left out in between:
\* the first m of them, for some m.
C36_RecentGroupsPrefix ==
    Rebuilt =>
        /\ Len(GroupsOf(compacted)) <= 3
        /\ Len(GroupsOf(compacted)) <= Len(MostRecentGroups(EnforcedInput))
        /\ \A k \in DOMAIN GroupsOf(compacted) :
               SameGroup(GroupsOf(compacted)[k], MostRecentGroups(EnforcedInput)[k])

\* a rebuild of a transcript of 4 groups or more that kept 2 of them
C36_Witness ==
    /\ Rebuilt
    /\ Len(GroupsOf(EnforcedInput)) >= 4
    /\ Len(GroupsOf(compacted)) = 2

====
